---- MODULE Spec2Model ----
(***************************************************************************)
(* Crown and Capture: the zustand game store (gameStore.ts), the chess     *)
(* rules (ChessRules.ts), the ability system (AbilitySystem) and the AI    *)
(* hook of the store, as one state machine.                                *)
(*                                                                         *)
(* JavaScript objects are shared by reference.  Three sharings matter and  *)
(* are modelled:                                                           *)
(*  - PIECE_ABILITIES[type] is one array of Ability objects used by every  *)
(*    piece of that type, so ability.currentCooldown is one counter per    *)
(*    ability id (variable currentCooldown);                               *)
(*  - movePiece and executeAbility mutate the Piece objects of the         *)
(*    committed board in place;                                            *)
(*  - a Move record's piece snapshots ({...piece}) share the stats object  *)
(*    of the piece they were taken from (field "linked").                  *)
(***************************************************************************)
EXTENDS Integers, Sequences, FiniteSets, TLC

VARIABLES
  board,              \* (Piece | null)[][] : board[y][x]
  currentTurn,        \* Team
  selectedPiece,      \* Position | null
  validMoves,         \* Position[]
  highlightedSquares, \* Position[]
  gameState,          \* GameState
  winner,             \* Team | null
  moveHistory,        \* Move[]
  turnCount,          \* number
  activeEffects,      \* visual effects waiting for their removal timer
  ai,                 \* ChessAI | null
  isAIThinking,       \* boolean
  currentCooldown,    \* Ability.currentCooldown of the shared Ability objects
  aiTimers            \* pending setTimeout(makeAIMove, 1000) callbacks

vars == <<board, currentTurn, selectedPiece, validMoves, highlightedSquares,
          gameState, winner, moveHistory, turnCount, activeEffects, ai,
          isAIThinking, currentCooldown, aiTimers>>

(***************************************************************************)
(* Bounds of the model                                                     *)
(***************************************************************************)
\* movePiece / endTurn are explored while turnCount < MaxTurn
MaxTurn == 4
\* movePiece schedules a makeAIMove timer while fewer than MaxTimers are pending
MaxTimers == 1

(***************************************************************************)
(* game.types                                                              *)
(***************************************************************************)
WHITE == "white"
BLACK == "black"
Team == {WHITE, BLACK}

PAWN == "pawn"
KNIGHT == "knight"
BISHOP == "bishop"
ROOK == "rook"
QUEEN == "queen"
KING == "king"
PieceType == {PAWN, KNIGHT, BISHOP, ROOK, QUEEN, KING}

MENU == "MENU"
PLAYING == "PLAYING"
PAUSED == "PAUSED"
ABILITY_TARGETING == "ABILITY_TARGETING"
GAME_OVER == "GAME_OVER"

\* the value of an absent Team / Position (JavaScript null)
NoTeam == "null"
NoPosition == [x |-> -1, y |-> -1]

Pos(x, y) == [x |-> x, y |-> y]
Squares == {Pos(x, y) : x \in 0..7, y \in 0..7}

isValidPosition(pos) == pos.x >= 0 /\ pos.x < 8 /\ pos.y >= 0 /\ pos.y < 8

positionsEqual(pos1, pos2) == pos1.x = pos2.x /\ pos1.y = pos2.y

\* maxHp, maxMana, attackPower and defense are never written after createPiece
DEFAULT_PIECE_STATS ==
  [t \in PieceType |->
     CASE t = PAWN   -> [maxHp |-> 50,  maxMana |-> 100, attackPower |-> 20, defense |-> 5]
       [] t = KNIGHT -> [maxHp |-> 75,  maxMana |-> 100, attackPower |-> 30, defense |-> 8]
       [] t = BISHOP -> [maxHp |-> 70,  maxMana |-> 100, attackPower |-> 25, defense |-> 6]
       [] t = ROOK   -> [maxHp |-> 100, maxMana |-> 100, attackPower |-> 35, defense |-> 12]
       [] t = QUEEN  -> [maxHp |-> 120, maxMana |-> 100, attackPower |-> 40, defense |-> 10]
       [] t = KING   -> [maxHp |-> 150, maxMana |-> 100, attackPower |-> 30, defense |-> 15]]

\* an empty cell of the board (JavaScript null), shaped like a Piece
null ==
  [id |-> "", type |-> "", team |-> "", position |-> NoPosition,
   stats |-> [currentHp |-> 0, currentMana |-> 0],
   hasMoved |-> FALSE, isAlive |-> FALSE, level |-> 0, statusEffects |-> <<>>]

Opposite(team) == IF team = WHITE THEN BLACK ELSE WHITE

(***************************************************************************)
(* ChessRules                                                              *)
(***************************************************************************)
getPawnMoves(piece, b) ==
  LET x == piece.position.x
      y == piece.position.y
      direction == IF piece.team = WHITE THEN -1 ELSE 1
      startRow == IF piece.team = WHITE THEN 6 ELSE 1
      oneForward == Pos(x, y + direction)
      twoForward == Pos(x, y + (direction * 2))
      stepOne == isValidPosition(oneForward) /\ b[oneForward.y][oneForward.x] = null
      stepTwo == /\ stepOne
                 /\ y = startRow
                 /\ isValidPosition(twoForward)
                 /\ b[twoForward.y][twoForward.x] = null
      captureLeft == Pos(x - 1, y + direction)
      captureRight == Pos(x + 1, y + direction)
  IN  (IF stepOne THEN {oneForward} ELSE {})
        \cup (IF stepTwo THEN {twoForward} ELSE {})
        \cup {pos \in {captureLeft, captureRight} :
                /\ isValidPosition(pos)
                /\ b[pos.y][pos.x] # null
                /\ b[pos.y][pos.x].team # piece.team}

\* knight jumps filtered by the board edge only
getKnightMovesAnyOccupant(piece, b) ==
  {pos \in {Pos(piece.position.x + d[1], piece.position.y + d[2]) :
              d \in {<<2, 1>>, <<2, -1>>, <<-2, 1>>, <<-2, -1>>,
                     <<1, 2>>, <<1, -2>>, <<-1, 2>>, <<-1, -2>>}} :
     isValidPosition(pos)}

getKnightMoves(piece, b) ==
  LET x == piece.position.x
      y == piece.position.y
      knightMoves == {Pos(x + 2, y + 1), Pos(x + 2, y - 1),
                      Pos(x - 2, y + 1), Pos(x - 2, y - 1),
                      Pos(x + 1, y + 2), Pos(x + 1, y - 2),
                      Pos(x - 1, y + 2), Pos(x - 1, y - 2)}
  IN  {pos \in knightMoves :
         /\ isValidPosition(pos)
         /\ (b[pos.y][pos.x] = null \/ b[pos.y][pos.x].team # piece.team)}

\* one direction of the ray loops of getDiagonalMoves / getStraightMoves, from
\* step i on: the loop stops off the board and at the first piece
RECURSIVE RayFrom(_, _, _, _, _)
RayFrom(piece, b, dx, dy, i) ==
  LET pos == Pos(piece.position.x + (dx * i), piece.position.y + (dy * i))
  IN  IF i >= 8 \/ ~isValidPosition(pos) THEN {}
      ELSE IF b[pos.y][pos.x] = null
      THEN {pos} \cup RayFrom(piece, b, dx, dy, i + 1)
      ELSE IF b[pos.y][pos.x].team # piece.team THEN {pos}
      ELSE {}

RayMoves(piece, b, dx, dy) == RayFrom(piece, b, dx, dy, 1)

getDiagonalMoves(piece, b) ==
  LET directions == {<<1, 1>>, <<1, -1>>, <<-1, 1>>, <<-1, -1>>}
  IN  UNION {RayMoves(piece, b, d[1], d[2]) : d \in directions}

getStraightMoves(piece, b) ==
  LET directions == {<<0, 1>>, <<0, -1>>, <<1, 0>>, <<-1, 0>>}
  IN  UNION {RayMoves(piece, b, d[1], d[2]) : d \in directions}

getBishopMoves(piece, b) == getDiagonalMoves(piece, b)

getRookMoves(piece, b) == getStraightMoves(piece, b)

getQueenMoves(piece, b) == getStraightMoves(piece, b) \cup getDiagonalMoves(piece, b)

getBasicKingMoves(piece, b) ==
  LET x == piece.position.x
      y == piece.position.y
  IN  {pos \in {Pos(x + dx, y + dy) : dx \in -1..1, dy \in -1..1} :
         /\ ~(pos.x = x /\ pos.y = y)
         /\ isValidPosition(pos)
         /\ (b[pos.y][pos.x] = null \/ b[pos.y][pos.x].team # piece.team)}

getRawValidMoves(piece, b) ==
  LET moves == CASE piece.type = PAWN   -> getPawnMoves(piece, b)
                 [] piece.type = KNIGHT -> getKnightMoves(piece, b)
                 [] piece.type = BISHOP -> getBishopMoves(piece, b)
                 [] piece.type = ROOK   -> getRookMoves(piece, b)
                 [] piece.type = QUEEN  -> getQueenMoves(piece, b)
                 [] piece.type = KING   -> getBasicKingMoves(piece, b)
                 [] OTHER -> {}
  IN  {pos \in moves : isValidPosition(pos)}

\* the first king of the team in scan order (y outer, x inner), or NoPosition
FindKing(team, b) ==
  LET kings == {pos \in Squares : /\ b[pos.y][pos.x] # null
                                  /\ b[pos.y][pos.x].type = KING
                                  /\ b[pos.y][pos.x].team = team}
  IN  IF kings = {} THEN NoPosition
      ELSE CHOOSE k \in kings :
             \A o \in kings : k.y < o.y \/ (k.y = o.y /\ k.x <= o.x)

isKingInCheck(team, b) ==
  LET kingPosition == FindKing(team, b)
  IN  IF kingPosition = NoPosition THEN FALSE
      ELSE \E pos \in Squares :
             LET piece == b[pos.y][pos.x]
             IN  /\ piece # null
                 /\ piece.team # team
                 /\ piece.isAlive
                 /\ kingPosition \in getRawValidMoves(piece, b)

\* a legality filter that never simulates the move
wouldMoveResultInCheckNever(piece, to, b) == FALSE

wouldMoveResultInCheck(piece, to, b) ==
  LET boardCopy == [b EXCEPT ![to.y][to.x] = [piece EXCEPT !.position = to],
                             ![piece.position.y][piece.position.x] = null]
  IN  isKingInCheck(piece.team, boardCopy)

\* castling offered without looking at the squares the king crosses
getCastlingMovesUnchecked(king, b) ==
  LET y == king.position.y
      kingsideRook == b[y][7]
      queensideRook == b[y][0]
      kingside == /\ kingsideRook # null
                  /\ kingsideRook.type = ROOK
                  /\ kingsideRook.team = king.team
                  /\ ~kingsideRook.hasMoved
                  /\ b[y][5] = null /\ b[y][6] = null
      queenside == /\ queensideRook # null
                   /\ queensideRook.type = ROOK
                   /\ queensideRook.team = king.team
                   /\ ~queensideRook.hasMoved
                   /\ b[y][1] = null /\ b[y][2] = null /\ b[y][3] = null
  IN  (IF kingside THEN {Pos(6, y)} ELSE {})
        \cup (IF queenside THEN {Pos(2, y)} ELSE {})

getCastlingMoves(king, b) ==
  LET y == king.position.y
      kingsideRook == b[y][7]
      queensideRook == b[y][0]
      kingside == /\ kingsideRook # null
                  /\ kingsideRook.type = ROOK
                  /\ kingsideRook.team = king.team
                  /\ ~kingsideRook.hasMoved
                  /\ b[y][5] = null /\ b[y][6] = null
                  /\ \A x \in {5, 6} : ~wouldMoveResultInCheck(king, Pos(x, y), b)
      queenside == /\ queensideRook # null
                   /\ queensideRook.type = ROOK
                   /\ queensideRook.team = king.team
                   /\ ~queensideRook.hasMoved
                   /\ b[y][1] = null /\ b[y][2] = null /\ b[y][3] = null
                   /\ \A x \in {3, 2} : ~wouldMoveResultInCheck(king, Pos(x, y), b)
  IN  (IF kingside THEN {Pos(6, y)} ELSE {})
        \cup (IF queenside THEN {Pos(2, y)} ELSE {})

getKingMoves(piece, b) ==
  getBasicKingMoves(piece, b)
    \cup (IF ~piece.hasMoved /\ ~isKingInCheck(piece.team, b)
          THEN getCastlingMoves(piece, b) ELSE {})

\* the per-type switch of getValidMoves, before the self-check filter
getCandidateMoves(piece, b) ==
  CASE piece.type = PAWN   -> getPawnMoves(piece, b)
    [] piece.type = KNIGHT -> getKnightMoves(piece, b)
    [] piece.type = BISHOP -> getBishopMoves(piece, b)
    [] piece.type = ROOK   -> getRookMoves(piece, b)
    [] piece.type = QUEEN  -> getQueenMoves(piece, b)
    [] piece.type = KING   -> getKingMoves(piece, b)
    [] OTHER -> {}

getValidMoves(piece, b) ==
  {pos \in getCandidateMoves(piece, b) :
     isValidPosition(pos) /\ ~wouldMoveResultInCheck(piece, pos, b)}

isMoveValid(piece, to, b) == to \in getValidMoves(piece, b)

isCastlingMove(king, to) ==
  LET dx == IF to.x >= king.position.x THEN to.x - king.position.x
            ELSE king.position.x - to.x
  IN  king.type = KING /\ dx = 2

\* a castling that leaves the rook in its corner
executeCastlingKeepsRook(king, to, b) == b

executeCastling(king, to, b) ==
  LET isKingside == to.x > king.position.x
      rookFromX == IF isKingside THEN 7 ELSE 0
      rookToX == IF isKingside THEN 5 ELSE 3
      y == king.position.y
      rook == b[y][rookFromX]
  IN  IF rook # null
      THEN [b EXCEPT ![y][rookToX] = [rook EXCEPT !.position = Pos(rookToX, y),
                                                  !.hasMoved = TRUE],
                     ![y][rookFromX] = null]
      ELSE b

\* the living pieces of a team, as the double loops of isCheckmate / isStalemate see them
TeamPieces(team, b) ==
  {b[pos.y][pos.x] : pos \in {p \in Squares : /\ b[p.y][p.x] # null
                                              /\ b[p.y][p.x].team = team
                                              /\ b[p.y][p.x].isAlive}}

\* a checkmate test that stops at the check and looks for no escaping move
isCheckmateOnCheck(team, b) == isKingInCheck(team, b)

isCheckmate(team, b) ==
  /\ isKingInCheck(team, b)
  /\ \A piece \in TeamPieces(team, b) : getValidMoves(piece, b) = {}

isStalemate(team, b) ==
  /\ ~isKingInCheck(team, b)
  /\ \A piece \in TeamPieces(team, b) : getValidMoves(piece, b) = {}

(***************************************************************************)
(* abilities.types: PIECE_ABILITIES                                        *)
(***************************************************************************)
SELF == "SELF"
ALLY == "ALLY"
ENEMY == "ENEMY"
EMPTY_SQUARE == "EMPTY_SQUARE"
ANY_SQUARE == "ANY_SQUARE"
AOE == "AOE"

\* an AbilityEffect without statusEffect
NoStatus == [id |-> "", duration |-> 0, value |-> 0, stackable |-> FALSE]

Status(id, duration, value) ==
  [id |-> id, duration |-> duration, value |-> value, stackable |-> FALSE]

\* areaOfEffect 0 stands for an absent areaOfEffect (both are falsy)
Effect(type, value, areaOfEffect, statusEffect) ==
  [type |-> type, value |-> value, areaOfEffect |-> areaOfEffect,
   statusEffect |-> statusEffect]

Ability(id, manaCost, cooldown, range, targetType, levelRequirement, effects) ==
  [id |-> id, manaCost |-> manaCost, cooldown |-> cooldown, range |-> range,
   targetType |-> targetType, levelRequirement |-> levelRequirement,
   effects |-> effects]

PIECE_ABILITIES ==
  [t \in PieceType |->
     CASE t = PAWN ->
            <<Ability("pawn_charge", 20, 5, 0, SELF, 1,
                      <<Effect("buff", 0, 0, Status("shield_wall", 3, 2))>>),
              Ability("pawn_heal", 15, 3, 1, ALLY, 3,
                      <<Effect("heal", 25, 0, NoStatus)>>)>>
       [] t = KNIGHT ->
            <<Ability("knight_leap", 30, 4, 5, EMPTY_SQUARE, 1,
                      <<Effect("teleport", 0, 0, NoStatus),
                        Effect("damage", 40, 1, NoStatus)>>),
              Ability("knight_rally", 40, 6, 2, AOE, 5,
                      <<Effect("buff", 0, 2, Status("battle_cry", 4, 5))>>)>>
       [] t = BISHOP ->
            <<Ability("bishop_heal", 35, 4, 8, ALLY, 1,
                      <<Effect("heal", 50, 0, NoStatus)>>),
              Ability("bishop_smite", 45, 5, 8, ENEMY, 4,
                      <<Effect("damage", 60, 0, NoStatus)>>)>>
       [] t = ROOK ->
            <<Ability("rook_barrage", 40, 5, 8, ANY_SQUARE, 1,
                      <<Effect("damage", 35, 0, NoStatus)>>),
              Ability("rook_fortress", 50, 8, 0, SELF, 6,
                      <<Effect("buff", 0, 0, Status("fortress_mode", 5, 10))>>)>>
       [] t = QUEEN ->
            <<Ability("queen_teleport", 50, 6, 8, ALLY, 1,
                      <<Effect("teleport", 0, 0, NoStatus)>>),
              Ability("queen_dominate", 80, 10, 5, ENEMY, 8,
                      <<Effect("debuff", 0, 0, Status("mind_control", 2, 0))>>)>>
       [] t = KING ->
            <<Ability("king_inspire", 60, 8, 0, AOE, 1,
                      <<Effect("buff", 0, 8, Status("royal_inspiration", 5, 3))>>),
              Ability("king_sanctuary", 100, 12, 3, EMPTY_SQUARE, 10,
                      <<Effect("heal", 15, 1, NoStatus)>>)>>]

AbilityIds ==
  {PIECE_ABILITIES[t][i].id : t \in PieceType, i \in 1..2}

\* piece.abilities.find(a => a.id === abilityId); <<>> when there is none
FindAbility(piece, abilityId) ==
  SelectSeq(PIECE_ABILITIES[piece.type], LAMBDA a : a.id = abilityId)

(***************************************************************************)
(* AbilitySystem                                                           *)
(***************************************************************************)
Max(a, b) == IF a >= b THEN a ELSE b
Min(a, b) == IF a <= b THEN a ELSE b
Abs(a) == IF a >= 0 THEN a ELSE 0 - a

SetCell(b, pos, v) == [b EXCEPT ![pos.y][pos.x] = v]

\* an assignment to fields of the Piece object with this id, which leaves it
\* as `changed` wherever the board holds it
MutatePiece(b, id, changed) ==
  [y \in 0..7 |-> [x \in 0..7 |->
     IF b[y][x] # null /\ b[y][x].id = id THEN changed ELSE b[y][x]]]

\* the cell holding the piece with this id (ids are unique on the board), or NoPosition
CellOf(b, id) ==
  LET cells == {pos \in Squares : b[pos.y][pos.x] # null /\ b[pos.y][pos.x].id = id}
  IN  IF cells = {} THEN NoPosition
      ELSE CHOOSE c \in cells :
             \A o \in cells : c.y > o.y \/ (c.y = o.y /\ c.x <= o.x)

PieceById(b, id) ==
  LET cell == CellOf(b, id)
  IN  IF cell = NoPosition THEN null ELSE b[cell.y][cell.x]

getDistance(pos1, pos2) == Max(Abs(pos1.x - pos2.x), Abs(pos1.y - pos2.y))

\* ability.currentCooldown of the ability abilityId as piece.abilities holds it:
\* piece.abilities is the array PIECE_ABILITIES[piece.type] itself, so it is
\* the one counter of that ability id
PieceCooldown(cd, piece, abilityId) == cd[abilityId]

\* a usability test without the cooldown check
canUseAbilityIgnoringCooldown(piece, ability, cd) ==
  /\ piece.isAlive
  /\ ~(piece.stats.currentMana < ability.manaCost)
  /\ ~(piece.level < ability.levelRequirement)

canUseAbility(piece, ability, cd) ==
  /\ piece.isAlive
  /\ ~(piece.stats.currentMana < ability.manaCost)
  /\ ~(cd[ability.id] > 0)
  /\ ~(piece.level < ability.levelRequirement)

isValidTarget(caster, ability, targetPos, b) ==
  /\ isValidPosition(targetPos)
  /\ ~(getDistance(caster.position, targetPos) > ability.range)
  /\ LET targetPiece == b[targetPos.y][targetPos.x]
     IN  CASE ability.targetType = SELF -> positionsEqual(caster.position, targetPos)
           [] ability.targetType = ALLY ->
                targetPiece # null /\ targetPiece.team = caster.team /\ targetPiece.isAlive
           [] ability.targetType = ENEMY ->
                targetPiece # null /\ targetPiece.team # caster.team /\ targetPiece.isAlive
           [] ability.targetType = EMPTY_SQUARE -> targetPiece = null
           [] ability.targetType = ANY_SQUARE -> TRUE
           [] ability.targetType = AOE -> TRUE
           [] OTHER -> FALSE

getValidTargets(caster, ability, b) ==
  {targetPos \in Squares : isValidTarget(caster, ability, targetPos, b)}

\* the occupied cells getAOETargets visits, in its order (dy outer, dx inner)
getAOETargets(centerPos, radius, b) ==
  LET n == (2 * radius) + 1
      cells == [i \in 1..(n * n) |->
                  Pos(centerPos.x - radius + ((i - 1) % n),
                      centerPos.y - radius + ((i - 1) \div n))]
  IN  SelectSeq(cells, LAMBDA pos : isValidPosition(pos) /\ b[pos.y][pos.x] # null)

\* the target list of an effect: the area, or the occupant of the target square
EffectTargets(effect, targetPos, b) ==
  IF effect.areaOfEffect # 0
  THEN getAOETargets(targetPos, effect.areaOfEffect, b)
  ELSE IF b[targetPos.y][targetPos.x] # null THEN <<targetPos>> ELSE <<>>

\* The effects work on w = [board, killed]: the board copy threaded through
\* executeAbility and the ids of the pieces a damage effect has killed.
RECURSIVE DamageLoop(_, _, _, _)
DamageLoop(casterTeam, effect, cells, w) ==
  IF cells = <<>> THEN w
  ELSE
    LET cell == Head(cells)
        target == w.board[cell.y][cell.x]
        damage == effect.value
        actualDamage == Max(1, damage - DEFAULT_PIECE_STATS[target.type].defense)
        newHp == Max(0, target.stats.currentHp - actualDamage)
        hit == [target EXCEPT !.stats.currentHp = newHp]
    IN  IF target = null \/ target.team = casterTeam
        THEN DamageLoop(casterTeam, effect, Tail(cells), w)
        ELSE IF newHp <= 0
        THEN DamageLoop(casterTeam, effect, Tail(cells),
               [board |-> SetCell(SetCell(w.board, cell, [hit EXCEPT !.isAlive = FALSE]),
                                  target.position, null),
                killed |-> w.killed \cup {target.id}])
        ELSE DamageLoop(casterTeam, effect, Tail(cells),
               [w EXCEPT !.board = SetCell(w.board, cell, hit)])

\* a damage effect that does not tell the caster's team from the other
executeDamageEffectFriendlyFire(caster, effect, targetPos, w) ==
  DamageLoop(NoTeam, effect, EffectTargets(effect, targetPos, w.board), w)

executeDamageEffect(caster, effect, targetPos, w) ==
  DamageLoop(caster.team, effect, EffectTargets(effect, targetPos, w.board), w)

RECURSIVE HealLoop(_, _, _, _)
HealLoop(casterTeam, effect, cells, w) ==
  IF cells = <<>> THEN w
  ELSE
    LET cell == Head(cells)
        target == w.board[cell.y][cell.x]
        healAmount == effect.value
        newHp == Min(DEFAULT_PIECE_STATS[target.type].maxHp,
                     target.stats.currentHp + healAmount)
    IN  IF target = null \/ target.team # casterTeam
        THEN HealLoop(casterTeam, effect, Tail(cells), w)
        ELSE HealLoop(casterTeam, effect, Tail(cells),
               [w EXCEPT !.board =
                  SetCell(w.board, cell, [target EXCEPT !.stats.currentHp = newHp])])

executeHealEffect(caster, effect, targetPos, w) ==
  HealLoop(caster.team, effect, EffectTargets(effect, targetPos, w.board), w)

RECURSIVE StatusLoop(_, _, _, _)
StatusLoop(casterTeam, effect, cells, w) ==
  IF cells = <<>> THEN w
  ELSE
    LET cell == Head(cells)
        target == w.board[cell.y][cell.x]
        isBuffForAlly == effect.type = "buff" /\ target.team = casterTeam
        isDebuffForEnemy == effect.type = "debuff" /\ target.team # casterTeam
        kept == IF ~effect.statusEffect.stackable
                THEN SelectSeq(target.statusEffects,
                               LAMBDA se : se.id # effect.statusEffect.id)
                ELSE target.statusEffects
    IN  IF target = null \/ (~isBuffForAlly /\ ~isDebuffForEnemy)
             \/ effect.statusEffect = NoStatus
        THEN StatusLoop(casterTeam, effect, Tail(cells), w)
        ELSE StatusLoop(casterTeam, effect, Tail(cells),
               [w EXCEPT !.board =
                  SetCell(w.board, cell,
                          [target EXCEPT !.statusEffects =
                                            Append(kept, effect.statusEffect)])])

\* a status effect that is appended without removing the instance already there
executeStatusEffectStacking(caster, effect, targetPos, w) ==
  LET cells == {EffectTargets(effect, targetPos, w.board)[i] :
                  i \in 1..Len(EffectTargets(effect, targetPos, w.board))}
  IN  [w EXCEPT !.board =
         [y \in 0..7 |-> [x \in 0..7 |->
            LET target == w.board[y][x]
            IN  IF /\ Pos(x, y) \in cells
                   /\ \/ effect.type = "buff" /\ target.team = caster.team
                      \/ effect.type = "debuff" /\ target.team # caster.team
                THEN [target EXCEPT !.statusEffects = Append(@, effect.statusEffect)]
                ELSE target]]]

executeStatusEffect(caster, effect, targetPos, w) ==
  StatusLoop(caster.team, effect, EffectTargets(effect, targetPos, w.board), w)

\* a teleport that moves the cell and leaves caster.position as it was
executeTeleportEffectKeepsPosition(caster, effect, targetPos, w) ==
  [w EXCEPT !.board = SetCell(SetCell(w.board, caster.position, null), targetPos, caster)]

\* caster is the caster object as it is now (after the mana was consumed)
executeTeleportEffect(caster, effect, targetPos, w) ==
  LET cleared == SetCell(w.board, caster.position, null)
      moved == MutatePiece(cleared, caster.id, [caster EXCEPT !.position = targetPos])
  IN  [w EXCEPT !.board =
         SetCell(moved, targetPos, [caster EXCEPT !.position = targetPos])]

RECURSIVE EffectLoop(_, _, _, _)
EffectLoop(casterId, effects, targetPos, w) ==
  IF effects = <<>> THEN w
  ELSE
    LET effect == Head(effects)
        caster == PieceById(w.board, casterId)
        next == CASE effect.type = "damage" ->
                       executeDamageEffect(caster, effect, targetPos, w)
                  [] effect.type = "heal" ->
                       executeHealEffect(caster, effect, targetPos, w)
                  [] effect.type \in {"buff", "debuff"} ->
                       executeStatusEffect(caster, effect, targetPos, w)
                  [] effect.type = "teleport" ->
                       executeTeleportEffect(caster, effect, targetPos, w)
                  [] OTHER -> w
    IN  EffectLoop(casterId, Tail(effects), targetPos, next)

\* an executeAbility that sets the cooldown and leaves the caster's mana as it was
executeAbilityKeepsMana(caster, ability, targetPos, b, cd) ==
  IF ~canUseAbility(caster, ability, cd)
  THEN [success |-> FALSE, board |-> b, currentCooldown |-> cd, killed |-> {}]
  ELSE
    LET w == EffectLoop(caster.id, ability.effects, targetPos,
                        [board |-> b, killed |-> {}])
    IN  [success |-> TRUE, board |-> w.board,
         currentCooldown |-> [cd EXCEPT ![ability.id] = ability.cooldown],
         killed |-> w.killed]

\* the result of executeAbility, and what it leaves in the shared Ability object
executeAbility(caster, ability, targetPos, b, cd) ==
  IF ~canUseAbility(caster, ability, cd)
  THEN [success |-> FALSE, board |-> b, currentCooldown |-> cd, killed |-> {}]
  ELSE
    LET paid == MutatePiece(b, caster.id,
                  [caster EXCEPT !.stats.currentMana = @ - ability.manaCost])
        w == EffectLoop(caster.id, ability.effects, targetPos,
                        [board |-> paid, killed |-> {}])
    IN  [success |-> TRUE, board |-> w.board,
         currentCooldown |-> [cd EXCEPT ![ability.id] = ability.cooldown],
         killed |-> w.killed]

\* processStatusEffects(piece): what it leaves in the piece.  The filter
\* callback decrements the duration of every effect and keeps those whose
\* duration is still positive; no effect of PIECE_ABILITIES is of type DOT or
\* HOT, or has an onTurnStart or onRemove callback.
processStatusEffects(piece) ==
  LET ticked == [i \in 1..Len(piece.statusEffects) |->
                   [piece.statusEffects[i] EXCEPT !.duration = @ - 1]]
  IN  [piece EXCEPT !.statusEffects = SelectSeq(ticked, LAMBDA se : ~(se.duration <= 0))]

\* reduceCooldowns(piece): what it leaves in the Ability objects of piece.abilities
reduceCooldowns(piece, cd) ==
  [id \in AbilityIds |->
     IF id \in {PIECE_ABILITIES[piece.type][i].id : i \in 1..2} /\ cd[id] > 0
     THEN cd[id] - 1
     ELSE cd[id]]

(***************************************************************************)
(* gameStore: construction                                                 *)
(***************************************************************************)
createPiece(id, type, team, position) ==
  [id |-> id, type |-> type, team |-> team, position |-> position,
   stats |-> [currentHp |-> DEFAULT_PIECE_STATS[type].maxHp,
              currentMana |-> DEFAULT_PIECE_STATS[type].maxMana],
   hasMoved |-> FALSE, isAlive |-> TRUE, level |-> 1, statusEffects |-> <<>>]

pieceOrder == <<ROOK, KNIGHT, BISHOP, QUEEN, KING, BISHOP, KNIGHT, ROOK>>

PieceId(team, type, x) == team \o "-" \o type \o "-" \o ToString(x)

createInitialBoard ==
  [y \in 0..7 |-> [x \in 0..7 |->
     CASE y = 1 -> createPiece(PieceId(BLACK, PAWN, x), PAWN, BLACK, Pos(x, 1))
       [] y = 6 -> createPiece(PieceId(WHITE, PAWN, x), PAWN, WHITE, Pos(x, 6))
       [] y = 0 -> createPiece(PieceId(BLACK, pieceOrder[x + 1], x),
                               pieceOrder[x + 1], BLACK, Pos(x, 0))
       [] y = 7 -> createPiece(PieceId(WHITE, pieceOrder[x + 1], x),
                               pieceOrder[x + 1], WHITE, Pos(x, 7))
       [] OTHER -> null]]

\* AIDifficulty
EASY == 1
MEDIUM == 3
HARD == 5
EXPERT == 7

NoAI == [difficulty |-> 0, team |-> NoTeam]

Init ==
  /\ board = createInitialBoard
  /\ currentTurn = WHITE
  /\ selectedPiece = NoPosition
  /\ validMoves = {}
  /\ highlightedSquares = {}
  /\ gameState = MENU
  /\ winner = NoTeam
  /\ moveHistory = <<>>
  /\ turnCount = 1
  /\ activeEffects = <<>>
  /\ ai = NoAI
  /\ isAIThinking = FALSE
  /\ currentCooldown = [id \in AbilityIds |-> 0]
  /\ aiTimers = 0

(***************************************************************************)
(* Move records.  {...piece} copies the fields of the piece but shares its *)
(* stats object: "linked" says that the stats of the snapshot are still    *)
(* the stats object of the piece with that id on the board.                *)
(***************************************************************************)
Snapshot(piece, linked) == [snap |-> piece, linked |-> linked]

\* a write to the stats of the board piece `id` shows in the linked snapshots
WriteThrough(history, id, stats) ==
  LET Sync(s) == IF s.linked /\ s.snap.id = id
                 THEN [s EXCEPT !.snap.stats = stats] ELSE s
  IN  [i \in 1..Len(history) |->
         [history[i] EXCEPT !.piece = Sync(@), !.capturedPiece = Sync(@)]]

\* the pieces of these ids were replaced by copies with a stats object of their own
Unlink(history, ids) ==
  LET Cut(s) == IF s.snap.id \in ids THEN [s EXCEPT !.linked = FALSE] ELSE s
  IN  [i \in 1..Len(history) |->
         [history[i] EXCEPT !.piece = Cut(@), !.capturedPiece = Cut(@)]]

\* the linked snapshots after executeAbility wrote to the pieces of board b in place
SyncAll(history, b, killed) ==
  LET Sync(s) ==
        IF ~s.linked THEN s
        ELSE IF s.snap.id \in killed THEN [s EXCEPT !.snap.stats.currentHp = 0]
        ELSE IF CellOf(b, s.snap.id) # NoPosition
        THEN [s EXCEPT !.snap.stats = PieceById(b, s.snap.id).stats]
        ELSE s
  IN  [i \in 1..Len(history) |->
         [history[i] EXCEPT !.piece = Sync(@), !.capturedPiece = Sync(@)]]

(***************************************************************************)
(* gameStore: endTurn                                                      *)
(***************************************************************************)
ManaRegeneration == 10

\* a regeneration without the Math.min cap
EndTurnBoardUncapped(b, newTurn) ==
  [y \in 0..7 |-> [x \in 0..7 |->
     LET piece == b[y][x]
     IN  IF piece # null /\ piece.team = newTurn /\ piece.isAlive
         THEN [piece EXCEPT !.stats.currentMana = @ + ManaRegeneration]
         ELSE piece]]

\* a regeneration that reaches the living pieces of both teams
EndTurnBoardBothTeams(b, newTurn) ==
  [y \in 0..7 |-> [x \in 0..7 |->
     LET piece == b[y][x]
     IN  IF piece # null /\ piece.isAlive
         THEN [piece EXCEPT !.stats.currentMana =
                 Min(DEFAULT_PIECE_STATS[piece.type].maxMana, @ + ManaRegeneration)]
         ELSE piece]]

\* the board endTurn commits.  tempHpTurns is set nowhere in the program, so
\* the second map of endTurn returns every piece as it is.
EndTurnBoard(b, newTurn) ==
  [y \in 0..7 |-> [x \in 0..7 |->
     LET piece == b[y][x]
     IN  IF piece # null /\ piece.team = newTurn /\ piece.isAlive
         THEN [piece EXCEPT !.stats.currentMana =
                 Min(DEFAULT_PIECE_STATS[piece.type].maxMana, @ + ManaRegeneration)]
         ELSE piece]]

\* the ids of the pieces EndTurnBoard replaces by a copy
RegeneratedIds(b, newTurn) ==
  {b[pos.y][pos.x].id :
     pos \in {p \in Squares : /\ b[p.y][p.x] # null
                              /\ b[p.y][p.x].team = newTurn
                              /\ b[p.y][p.x].isAlive}}

\* an endTurn that regenerates mana and leaves the turn with the same team
EndTurnFromSameTurn(b, history) ==
  /\ board' = EndTurnBoard(b, Opposite(currentTurn))
  /\ moveHistory' = Unlink(history, RegeneratedIds(b, Opposite(currentTurn)))
  /\ currentTurn' = currentTurn
  /\ turnCount' = turnCount + 1
  /\ selectedPiece' = NoPosition
  /\ validMoves' = {}
  /\ highlightedSquares' = {}

\* endTurn on a store whose board and moveHistory are b and history
EndTurnFrom(b, history) ==
  LET newTurn == Opposite(currentTurn)
  IN  /\ board' = EndTurnBoard(b, newTurn)
      /\ moveHistory' = Unlink(history, RegeneratedIds(b, newTurn))
      /\ currentTurn' = newTurn
      /\ turnCount' = turnCount + 1
      /\ selectedPiece' = NoPosition
      /\ validMoves' = {}
      /\ highlightedSquares' = {}

endTurn ==
  /\ turnCount < MaxTurn
  /\ EndTurnFrom(board, moveHistory)
  /\ UNCHANGED <<gameState, winner, activeEffects, ai, isAIThinking,
                 currentCooldown, aiTimers>>

(***************************************************************************)
(* gameStore: selectPiece                                                  *)
(***************************************************************************)
selectPiece(position) ==
  LET piece == board[position.y][position.x]
  IN  /\ IF piece = null \/ piece.team # currentTurn \/ ~piece.isAlive
         THEN /\ selectedPiece' = NoPosition
              /\ validMoves' = {}
              /\ highlightedSquares' = {}
         ELSE /\ selectedPiece' = position
              /\ validMoves' = getValidMoves(piece, board)
              /\ highlightedSquares' = validMoves'
      /\ UNCHANGED <<board, currentTurn, gameState, winner, moveHistory, turnCount,
                     activeEffects, ai, isAIThinking, currentCooldown, aiTimers>>

(***************************************************************************)
(* gameStore: movePiece                                                    *)
(***************************************************************************)
\* a capture damage reduced by the defender's defense, as ability damage is
CaptureDamageLessDefense(piece, targetPiece) ==
  Max(1, DEFAULT_PIECE_STATS[piece.type].attackPower
           - DEFAULT_PIECE_STATS[targetPiece.type].defense)

\* the damage of a capture
CaptureDamage(piece, targetPiece) == DEFAULT_PIECE_STATS[piece.type].attackPower

\* the board movePiece commits (before endTurn)
MoveBoard(piece, from, to, b) ==
  LET targetPiece == b[to.y][to.x]
      castled == IF isCastlingMove(piece, to) THEN executeCastling(piece, to, b) ELSE b
      newHp == targetPiece.stats.currentHp - CaptureDamage(piece, targetPiece)
      fought == IF targetPiece = null THEN castled
                ELSE IF newHp <= 0 THEN SetCell(castled, to, null)
                ELSE SetCell(castled, to, [targetPiece EXCEPT !.stats.currentHp = newHp])
  IN  SetCell(SetCell(fought, to, [piece EXCEPT !.position = to, !.hasMoved = TRUE]),
              from, null)

\* the Move record of movePiece, as it is when it is appended
MoveRecord(piece, from, to, b) ==
  LET targetPiece == b[to.y][to.x]
      damage == CaptureDamage(piece, targetPiece)
      newHp == targetPiece.stats.currentHp - damage
  IN  [from |-> from, to |-> to,
       piece |-> Snapshot(piece, TRUE),
       capturedPiece |->
         IF targetPiece = null THEN Snapshot(null, FALSE)
         ELSE IF newHp <= 0 THEN Snapshot(targetPiece, FALSE)
         ELSE Snapshot([targetPiece EXCEPT !.stats.currentHp = newHp], FALSE),
       damage |-> IF targetPiece = null THEN <<>> ELSE <<damage>>]

\* the visual effects movePiece adds (each with a removal timer)
MoveEffects(piece, from, to, b) ==
  (IF isCastlingMove(piece, to)
   THEN <<[type |-> "teleport", position |-> from, target |-> to]>> ELSE <<>>)
  \o (IF b[to.y][to.x] # null
      THEN <<[type |-> "capture", position |-> to, target |-> NoPosition]>> ELSE <<>>)

\* the winner movePiece computes
\* a winner as soon as the opposing team has no legal move, in check or not
MoveWinnerOnNoMove(newBoard) ==
  IF \A piece \in TeamPieces(Opposite(currentTurn), newBoard) :
       getValidMoves(piece, newBoard) = {}
  THEN currentTurn ELSE NoTeam

MoveWinner(newBoard) ==
  IF isCheckmate(Opposite(currentTurn), newBoard) THEN currentTurn ELSE NoTeam

\* movePiece past its validation guard, endTurn and the AI timer included
MoveApply(from, to, pending) ==
  LET piece == board[from.y][from.x]
      targetPiece == board[to.y][to.x]
      newHp == targetPiece.stats.currentHp - CaptureDamage(piece, targetPiece)
      newBoard == MoveBoard(piece, from, to, board)
      written == IF targetPiece # null /\ newHp > 0
                 THEN WriteThrough(moveHistory, targetPiece.id,
                                   [targetPiece.stats EXCEPT !.currentHp = newHp])
                 ELSE moveHistory
      newWinner == MoveWinner(newBoard)
  IN  /\ EndTurnFrom(newBoard, Append(written, MoveRecord(piece, from, to, board)))
      /\ winner' = newWinner
      /\ gameState' = IF newWinner # NoTeam THEN GAME_OVER ELSE gameState
      /\ activeEffects' = activeEffects \o MoveEffects(piece, from, to, board)
      /\ IF ai # NoAI /\ Opposite(currentTurn) = ai.team
         THEN pending < MaxTimers /\ aiTimers' = pending + 1
         ELSE aiTimers' = pending

\* a guard that only looks for a piece at `from`
MoveAcceptedAnyTarget(from, to) == board[from.y][from.x] # null

MoveAccepted(from, to) ==
  /\ board[from.y][from.x] # null
  /\ isMoveValid(board[from.y][from.x], to, board)

movePiece(from, to) ==
  IF ~MoveAccepted(from, to)
  THEN UNCHANGED vars
  ELSE /\ turnCount < MaxTurn
       /\ MoveApply(from, to, aiTimers)
       /\ UNCHANGED <<ai, isAIThinking, currentCooldown>>

(***************************************************************************)
(* gameStore: useAbility                                                   *)
(***************************************************************************)
\* the caster lookup of useAbility: its break leaves the inner loop only, so the
\* last row holding the id decides, and in that row the first match
FindCaster(b, pieceId) == PieceById(b, pieceId)

\* a useAbility whose targeting phase already starts the cooldown
useAbilityCoolsOnTargeting(pieceId, abilityId, target) ==
  LET caster == FindCaster(board, pieceId)
      found == IF caster = null THEN <<>> ELSE FindAbility(caster, abilityId)
      ability == found[1]
      targetPos == IF target # NoPosition THEN target ELSE caster.position
      result == executeAbility(caster, ability, targetPos, board, currentCooldown)
  IN  IF caster = null \/ caster.team # currentTurn \/ found = <<>>
      THEN UNCHANGED vars
      ELSE IF target = NoPosition /\ ability.targetType # SELF
      THEN /\ gameState' = ABILITY_TARGETING
           /\ selectedPiece' = caster.position
           /\ highlightedSquares' = getValidTargets(caster, ability, board)
           /\ currentCooldown' = [currentCooldown EXCEPT ![ability.id] = ability.cooldown]
           /\ UNCHANGED <<board, currentTurn, validMoves, winner, moveHistory,
                          turnCount, activeEffects, ai, isAIThinking, aiTimers>>
      ELSE IF result.success
      THEN /\ board' = result.board
           /\ currentCooldown' = result.currentCooldown
           /\ moveHistory' = SyncAll(moveHistory, result.board, result.killed)
           /\ gameState' = PLAYING
           /\ selectedPiece' = NoPosition
           /\ highlightedSquares' = {}
           /\ validMoves' = {}
           /\ UNCHANGED <<currentTurn, winner, turnCount, activeEffects, ai,
                          isAIThinking, aiTimers>>
      ELSE UNCHANGED vars

\* target = NoPosition is a call without the optional target
useAbility(pieceId, abilityId, target) ==
  LET caster == FindCaster(board, pieceId)
      found == IF caster = null THEN <<>> ELSE FindAbility(caster, abilityId)
      ability == found[1]
      targetPos == IF target # NoPosition THEN target ELSE caster.position
      result == executeAbility(caster, ability, targetPos, board, currentCooldown)
  IN  IF caster = null \/ caster.team # currentTurn \/ found = <<>>
      THEN UNCHANGED vars
      ELSE IF target = NoPosition /\ ability.targetType # SELF
      THEN /\ gameState' = ABILITY_TARGETING
           /\ selectedPiece' = caster.position
           /\ highlightedSquares' = getValidTargets(caster, ability, board)
           /\ UNCHANGED <<board, currentTurn, validMoves, winner, moveHistory,
                          turnCount, activeEffects, ai, isAIThinking,
                          currentCooldown, aiTimers>>
      ELSE IF result.success
      THEN /\ board' = result.board
           /\ currentCooldown' = result.currentCooldown
           /\ moveHistory' = SyncAll(moveHistory, result.board, result.killed)
           /\ gameState' = PLAYING
           /\ selectedPiece' = NoPosition
           /\ highlightedSquares' = {}
           /\ validMoves' = {}
           /\ UNCHANGED <<currentTurn, winner, turnCount, activeEffects, ai,
                          isAIThinking, aiTimers>>
      ELSE UNCHANGED vars

(***************************************************************************)
(* gameStore: resetGame, setGameState, startAIGame                         *)
(***************************************************************************)
\* The Ability objects of PIECE_ABILITIES outlive the board, and so do the
\* timers that are pending: neither is touched here.
\* a reset that leaves the turn counter where it was
resetGameKeepsTurnCount ==
  /\ board' = createInitialBoard
  /\ currentTurn' = WHITE
  /\ selectedPiece' = NoPosition
  /\ validMoves' = {}
  /\ highlightedSquares' = {}
  /\ gameState' = PLAYING
  /\ winner' = NoTeam
  /\ moveHistory' = <<>>
  /\ activeEffects' = <<>>
  /\ UNCHANGED <<turnCount, ai, isAIThinking, currentCooldown, aiTimers>>

resetGame ==
  /\ board' = createInitialBoard
  /\ currentTurn' = WHITE
  /\ selectedPiece' = NoPosition
  /\ validMoves' = {}
  /\ highlightedSquares' = {}
  /\ gameState' = PLAYING
  /\ winner' = NoTeam
  /\ moveHistory' = <<>>
  /\ turnCount' = 1
  /\ activeEffects' = <<>>
  /\ UNCHANGED <<ai, isAIThinking, currentCooldown, aiTimers>>

setGameState(newState) ==
  /\ gameState' = newState
  /\ UNCHANGED <<board, currentTurn, selectedPiece, validMoves, highlightedSquares,
                 winner, moveHistory, turnCount, activeEffects, ai, isAIThinking,
                 currentCooldown, aiTimers>>

startAIGame(difficulty) ==
  /\ ai' = [difficulty |-> difficulty, team |-> BLACK]
  /\ board' = createInitialBoard
  /\ currentTurn' = WHITE
  /\ selectedPiece' = NoPosition
  /\ validMoves' = {}
  /\ highlightedSquares' = {}
  /\ gameState' = PLAYING
  /\ winner' = NoTeam
  /\ moveHistory' = <<>>
  /\ turnCount' = 1
  /\ activeEffects' = <<>>
  /\ isAIThinking' = FALSE
  /\ UNCHANGED <<currentCooldown, aiTimers>>

(***************************************************************************)
(* The moves the environment asks for, drawn from a small set              *)
(***************************************************************************)
Request(fx, fy, tx, ty) == [from |-> Pos(fx, fy), to |-> Pos(tx, ty)]

MoveRequests ==
  {Request(4, 6, 4, 4),   \* e2-e4
   Request(5, 6, 5, 5),   \* f2-f3
   Request(4, 6, 4, 3),   \* e2-e5, never legal
   Request(6, 5, 5, 6),   \* Qg3xf2
   Request(6, 5, 7, 6)}   \* Qg3xh2

\* the moves the random draws of the AI pick
RandomDraws == MoveRequests

(***************************************************************************)
(* ChessAI and gameStore: makeAIMove                                       *)
(***************************************************************************)
\* the (from, to) of getAllPossibleMoves
\* a move list that does not look at the team of the piece
getAllPossibleMovesAnyTeam(b, team) ==
  UNION {{[from |-> piece.position, to |-> to] : to \in getCandidateMoves(piece, b)} :
           piece \in TeamPieces(WHITE, b) \cup TeamPieces(BLACK, b)}

getAllPossibleMoves(b, team) ==
  UNION {{[from |-> piece.position, to |-> to] : to \in getValidMoves(piece, b)} :
           piece \in TeamPieces(team, b)}

\* getBestMove returns null where getAllPossibleMoves is empty
NoMove == [from |-> NoPosition, to |-> NoPosition]

\* The results getBestMove can have.  At EASY and MEDIUM Math.random() < 0.3 hands
\* back allMoves[floor(random * length)], any element of getAllPossibleMoves.  The
\* draws explored are those that pick a move of RandomDraws; where no legal move
\* is one of them, the draw explored picks the legal move lowest on the board.
getBestMove(b, team) ==
  LET Rank(m) == ((m.from.y * 8 + m.from.x) * 8 + m.to.y) * 8 + m.to.x
      Pick(allMoves) ==
        IF allMoves = {} THEN {NoMove}
        ELSE IF allMoves \cap RandomDraws # {} THEN allMoves \cap RandomDraws
        ELSE {CHOOSE m \in allMoves : \A o \in allMoves : Rank(m) <= Rank(o)}
  IN  UNION {Pick(allMoves) : allMoves \in {getAllPossibleMoves(b, team)}}

\* a guard that does not look at whose turn it is
AIGuardAnyTurn == ai # NoAI /\ ~isAIThinking

AIGuard == ai # NoAI /\ currentTurn = ai.team /\ ~isAIThinking

\* makeAIMove with `pending` timers left.  It has no await: isAIThinking is set,
\* the move is made and the finally block clears isAIThinking again within one
\* run of the event loop.
MakeAIMoveWith(pending) ==
  /\ \E aiMove \in (IF AIGuard THEN getBestMove(board, ai.team) ELSE {NoMove}) :
       IF aiMove # NoMove /\ MoveAccepted(aiMove.from, aiMove.to)
       THEN turnCount < MaxTurn /\ MoveApply(aiMove.from, aiMove.to, pending)
       ELSE /\ aiTimers' = pending
            /\ UNCHANGED <<board, currentTurn, selectedPiece, validMoves,
                           highlightedSquares, gameState, winner, moveHistory,
                           turnCount, activeEffects>>
  /\ UNCHANGED <<ai, isAIThinking, currentCooldown>>

\* makeAIMove called as a store command
makeAIMove == MakeAIMoveWith(aiTimers)

\* a setTimeout(() => get().makeAIMove(), 1000) of movePiece fires
AITimerFires ==
  /\ aiTimers > 0
  /\ MakeAIMoveWith(aiTimers - 1)

\* the removal timer of addEffect: the delays are equal (1500 ms), so the timers
\* fire in the order of the effects
EffectTimerFires ==
  /\ activeEffects # <<>>
  /\ activeEffects' = Tail(activeEffects)
  /\ UNCHANGED <<board, currentTurn, selectedPiece, validMoves, highlightedSquares,
                 gameState, winner, moveHistory, turnCount, ai, isAIThinking,
                 currentCooldown, aiTimers>>

(***************************************************************************)
(* The commands the environment issues, drawn from small sets              *)
(***************************************************************************)
Cast(pieceId, abilityId, target) ==
  [pieceId |-> pieceId, abilityId |-> abilityId, target |-> target]

AbilityRequests ==
  {Cast("black-queen-3", "queen_teleport", Pos(6, 5)),
   Cast("black-knight-6", "knight_leap", Pos(7, 5)),
   Cast("black-knight-6", "knight_leap", NoPosition),
   Cast("white-pawn-0", "pawn_heal", Pos(0, 6))}

SelectRequests == {Pos(4, 6)}

GameStateRequests == {PLAYING}

Difficulties == {EASY}

Next ==
  \/ \E position \in SelectRequests : selectPiece(position)
  \/ \E r \in MoveRequests : movePiece(r.from, r.to)
  \/ \E c \in AbilityRequests : useAbility(c.pieceId, c.abilityId, c.target)
  \/ endTurn
  \/ resetGame
  \/ \E newState \in GameStateRequests : setGameState(newState)
  \/ \E difficulty \in Difficulties : startAIGame(difficulty)
  \/ makeAIMove
  \/ AITimerFires
  \/ EffectTimerFires

Spec == Init /\ [][Next]_vars

(***************************************************************************)
(* The chess-rule specification: the same store, asked for the moves that  *)
(* lead to a castling position and to a pinned pawn                        *)
(***************************************************************************)
RuleMoves ==
  {Request(4, 6, 4, 4),   \* e2-e4
   Request(5, 7, 2, 4),   \* Bf1-c4
   Request(4, 7, 6, 7),   \* O-O
   Request(5, 6, 5, 5)}   \* f2-f3

RuleCasts ==
  {Cast("white-knight-6", "knight_leap", Pos(0, 4)),
   Cast("black-queen-3", "queen_teleport", Pos(7, 4)),
   Cast("black-queen-3", "queen_teleport", Pos(3, 5))}

RulesNext ==
  \/ \E r \in RuleMoves : movePiece(r.from, r.to)
  \/ \E c \in RuleCasts : useAbility(c.pieceId, c.abilityId, c.target)
  \/ endTurn

RulesSpec == Init /\ [][RulesNext]_vars

(***************************************************************************)
(* The ability-engine specification: the static methods of AbilitySystem   *)
(* called on the initial board, outside the store                          *)
(***************************************************************************)
EngineCasts ==
  {Cast("white-pawn-0", "pawn_charge", Pos(0, 6)),
   Cast("black-knight-6", "knight_leap", Pos(7, 5)),
   Cast("black-knight-6", "knight_leap", Pos(6, 5))}

EnginePieces == {"white-pawn-0", "black-knight-6"}

\* AbilitySystem.executeAbility(caster, ability, targetPos, board)
ExecuteAbility(pieceId, abilityId, target) ==
  LET caster == PieceById(board, pieceId)
      result == executeAbility(caster, FindAbility(caster, abilityId)[1], target,
                               board, currentCooldown)
  IN  /\ caster # null
      /\ board' = result.board
      /\ currentCooldown' = result.currentCooldown
      /\ UNCHANGED <<currentTurn, selectedPiece, validMoves, highlightedSquares,
                     gameState, winner, moveHistory, turnCount, activeEffects, ai,
                     isAIThinking, aiTimers>>

\* AbilitySystem.processStatusEffects(piece)
ProcessStatusEffects(pieceId) ==
  /\ CellOf(board, pieceId) # NoPosition
  /\ board' = SetCell(board, CellOf(board, pieceId),
                      processStatusEffects(PieceById(board, pieceId)))
  /\ UNCHANGED <<currentTurn, selectedPiece, validMoves, highlightedSquares,
                 gameState, winner, moveHistory, turnCount, activeEffects, ai,
                 isAIThinking, currentCooldown, aiTimers>>

\* AbilitySystem.reduceCooldowns(piece)
ReduceCooldowns(pieceId) ==
  /\ CellOf(board, pieceId) # NoPosition
  /\ currentCooldown' = reduceCooldowns(PieceById(board, pieceId), currentCooldown)
  /\ UNCHANGED <<board, currentTurn, selectedPiece, validMoves, highlightedSquares,
                 gameState, winner, moveHistory, turnCount, activeEffects, ai,
                 isAIThinking, aiTimers>>

EngineNext ==
  \/ \E c \in EngineCasts : ExecuteAbility(c.pieceId, c.abilityId, c.target)
  \/ \E pieceId \in EnginePieces : ProcessStatusEffects(pieceId)
  \/ \E pieceId \in EnginePieces : ReduceCooldowns(pieceId)

EngineSpec == Init /\ [][EngineNext]_vars

(***************************************************************************)
(* The status-effect specification: the store, asked for the abilities     *)
(* that apply a status effect, and for turn changes                        *)
(***************************************************************************)
StatusCasts ==
  {Cast("white-pawn-0", "pawn_charge", NoPosition),
   Cast("black-pawn-0", "pawn_charge", NoPosition),
   Cast("white-king-4", "king_inspire", Pos(4, 7)),
   Cast("black-king-4", "king_inspire", NoPosition)}

StatusNext ==
  \/ \E c \in StatusCasts : useAbility(c.pieceId, c.abilityId, c.target)
  \/ \E position \in SelectRequests : selectPiece(position)
  \/ endTurn

StatusSpec == Init /\ [][StatusNext]_vars

(***************************************************************************)
(* The stalemate specification: the store, asked for the moves of one game  *)
(* in their order (1.e3 a5 2.Qh5 Ra6 3.Qxa5 h5 4.h4 Rah6 5.Qxc7 f6 6.Qxd7+  *)
(* Kf7 7.Qxb7 Qd3 8.Qxb8 Qh7 9.Qxc8 Kg6 10.Qe6, after which Black is not in *)
(* check and has no legal move), for selections and for phase changes       *)
(***************************************************************************)
GameLine ==
  <<Request(4, 6, 4, 5), Request(0, 1, 0, 3),
    Request(3, 7, 7, 3), Request(0, 0, 0, 2),
    Request(7, 3, 0, 3), Request(7, 1, 7, 3),
    Request(7, 6, 7, 4), Request(0, 2, 7, 2),
    Request(0, 3, 2, 1), Request(5, 1, 5, 2),
    Request(2, 1, 3, 1), Request(4, 0, 5, 1),
    Request(3, 1, 1, 1), Request(3, 0, 3, 5),
    Request(1, 1, 1, 0), Request(3, 5, 7, 1),
    Request(1, 0, 2, 0), Request(5, 1, 6, 2),
    Request(2, 0, 4, 2)>>

\* h1 and g8: a white and a black piece that stay where they are
GameSelects == {Pos(7, 7), Pos(6, 0)}

GamePhases == {PLAYING, PAUSED}

\* movePiece, asked for the next move of the line
LineMove ==
  /\ Len(moveHistory) < Len(GameLine)
  /\ LET r == GameLine[Len(moveHistory) + 1]
     IN  /\ MoveAccepted(r.from, r.to)
         /\ MoveApply(r.from, r.to, aiTimers)
  /\ UNCHANGED <<ai, isAIThinking, currentCooldown>>

StalemateNext ==
  \/ LineMove
  \/ \E position \in GameSelects : selectPiece(position)
  \/ \E newState \in GamePhases : setGameState(newState)

StalemateSpec == Init /\ [][StalemateNext]_vars

(***************************************************************************)
(* The history specification: the store, asked for a pawn move to g3, for   *)
(* the leap of the black knight to h3 next to it, for turn changes and for  *)
(* new games                                                                *)
(***************************************************************************)
HistoryMoves ==
  {Request(6, 6, 6, 5),   \* g2-g3
   Request(4, 6, 4, 4),   \* e2-e4
   Request(4, 1, 4, 3),   \* e7-e5
   Request(6, 6, 6, 3)}   \* g2-g5, never legal

HistoryCasts ==
  {Cast("black-knight-6", "knight_leap", Pos(7, 5)),
   Cast("white-pawn-6", "pawn_charge", NoPosition)}

HistoryNext ==
  \/ \E r \in HistoryMoves : movePiece(r.from, r.to)
  \/ \E c \in HistoryCasts : useAbility(c.pieceId, c.abilityId, c.target)
  \/ endTurn
  \/ resetGame

HistorySpec == Init /\ [][HistoryNext]_vars

\* HistorySpec with turns that keep advancing while endTurn can be taken
HistoryLiveSpec == HistorySpec /\ WF_vars(endTurn)

(***************************************************************************)
(* The teleport specification: the store, asked for teleports of a queen    *)
(* onto the squares of its own king, of a pawn of its team and of a pawn of *)
(* the other team, for a move of the queen from there, for turn changes and *)
(* for new games                                                            *)
(***************************************************************************)
TeleportMoves ==
  {Request(4, 6, 4, 4),   \* e2-e4
   Request(0, 1, 0, 2),   \* a7-a6
   Request(4, 1, 4, 0)}   \* from e7 to e8

TeleportCasts ==
  {Cast("white-queen-3", "queen_teleport", Pos(4, 7)),   \* onto e1
   Cast("white-queen-3", "queen_teleport", Pos(4, 1)),   \* onto e7
   Cast("black-queen-3", "queen_teleport", Pos(3, 1))}   \* onto d7

TeleportNext ==
  \/ \E r \in TeleportMoves : movePiece(r.from, r.to)
  \/ \E c \in TeleportCasts : useAbility(c.pieceId, c.abilityId, c.target)
  \/ endTurn
  \/ resetGame

TeleportSpec == Init /\ [][TeleportNext]_vars

(***************************************************************************)
(* The AI-game specification: the store with an AI controller, asked for    *)
(* moves of white and of black pawns, for the selection of a black pawn and *)
(* for turn changes; in AILiveSpec a pending timer fires in the end         *)
(***************************************************************************)
AIMoves ==
  {Request(4, 6, 4, 4),   \* e2-e4
   Request(3, 6, 3, 4),   \* d2-d4
   Request(4, 1, 4, 3)}   \* e7-e5

AISelects == {Pos(4, 1)}   \* e7

AINext ==
  \/ \E difficulty \in Difficulties : startAIGame(difficulty)
  \/ \E r \in AIMoves : movePiece(r.from, r.to)
  \/ \E position \in AISelects : selectPiece(position)
  \/ endTurn
  \/ makeAIMove
  \/ AITimerFires

AISpec == Init /\ [][AINext]_vars

AILiveSpec == AISpec /\ WF_vars(AITimerFires)

(***************************************************************************)
(* ChessAI: evaluation and search.  Scores are kept multiplied by           *)
(* ScoreScale, a common multiple of every maxHp, so that the hpRatio        *)
(* fractions of evaluateBoard stay exact.                                   *)
(***************************************************************************)
ScoreScale == 4200

PIECE_VALUES ==
  [t \in PieceType |->
     CASE t = PAWN   -> 100
       [] t = KNIGHT -> 320
       [] t = BISHOP -> 330
       [] t = ROOK   -> 500
       [] t = QUEEN  -> 900
       [] t = KING   -> 20000]

\* the tables are indexed [adjustedY + 1][x + 1]
POSITION_BONUSES ==
  [t \in {PAWN, KNIGHT} |->
     IF t = PAWN
     THEN << <<0, 0, 0, 0, 0, 0, 0, 0>>,
             <<50, 50, 50, 50, 50, 50, 50, 50>>,
             <<10, 10, 20, 30, 30, 20, 10, 10>>,
             <<5, 5, 10, 25, 25, 10, 5, 5>>,
             <<0, 0, 0, 20, 20, 0, 0, 0>>,
             <<5, -5, -10, 0, 0, -10, -5, 5>>,
             <<5, 10, 10, -20, -20, 10, 10, 5>>,
             <<0, 0, 0, 0, 0, 0, 0, 0>> >>
     ELSE << <<-50, -40, -30, -30, -30, -30, -40, -50>>,
             <<-40, -20, 0, 0, 0, 0, -20, -40>>,
             <<-30, 0, 10, 15, 15, 10, 0, -30>>,
             <<-30, 5, 15, 20, 20, 15, 5, -30>>,
             <<-30, 0, 15, 20, 20, 15, 0, -30>>,
             <<-30, 5, 10, 15, 15, 10, 5, -30>>,
             <<-40, -20, 0, 5, 5, 0, -20, -40>>,
             <<-50, -40, -30, -30, -30, -30, -40, -50>> >>]

getPositionBonus(piece, x, y) ==
  IF piece.type \notin DOMAIN POSITION_BONUSES THEN 0
  ELSE LET adjustedY == IF piece.team = WHITE THEN 7 - y ELSE y
       IN  POSITION_BONUSES[piece.type][adjustedY + 1][x + 1]

\* what the cells 0 .. n-1 (row by row) add to the score of evaluateBoard:
\* piece value, position bonus and stat bonus, White counted up, Black down
RECURSIVE MaterialScore(_, _)
MaterialScore(b, n) ==
  IF n = 0 THEN 0
  ELSE LET x == (n - 1) % 8
           y == (n - 1) \div 8
           piece == b[y][x]
           totalValue == PIECE_VALUES[piece.type] + getPositionBonus(piece, x, y)
           statBonus == (DEFAULT_PIECE_STATS[piece.type].attackPower
                           + DEFAULT_PIECE_STATS[piece.type].defense)
                        * piece.stats.currentHp
                        * (ScoreScale \div DEFAULT_PIECE_STATS[piece.type].maxHp)
           value == totalValue * ScoreScale + statBonus
       IN  MaterialScore(b, n - 1)
             + (IF piece # null /\ piece.isAlive
                THEN (IF piece.team = WHITE THEN value ELSE 0 - value)
                ELSE 0)

evaluateKingSafety(b, team) ==
  LET Kings(t) == {pos \in Squares : /\ b[pos.y][pos.x] # null
                                     /\ b[pos.y][pos.x].type = KING
                                     /\ b[pos.y][pos.x].team = t}
      safetyScore(t) == IF isKingInCheck(t, b) THEN 0 - 50 ELSE 10
      Term(t) == IF Kings(t) = {} THEN 0 ELSE Cardinality(Kings(t)) * safetyScore(t)
  IN  Term(team) - Term(Opposite(team))

\* the doubled-pawn penalty of the files 0 .. n-1
RECURSIVE DoubledPawns(_, _)
DoubledPawns(b, n) ==
  IF n = 0 THEN 0
  ELSE LET x == n - 1
           Pawns(t) == Cardinality({y \in 0..7 : /\ b[y][x] # null
                                                 /\ b[y][x].type = PAWN
                                                 /\ b[y][x].team = t})
       IN  DoubledPawns(b, n - 1)
             - (IF Pawns(WHITE) > 1 THEN 10 * (Pawns(WHITE) - 1) ELSE 0)
             + (IF Pawns(BLACK) > 1 THEN 10 * (Pawns(BLACK) - 1) ELSE 0)

evaluatePawnStructure(b, team) ==
  IF team = WHITE THEN DoubledPawns(b, 8) ELSE 0 - DoubledPawns(b, 8)

evaluateControl(b, team) ==
  LET whiteMoves == Cardinality(getAllPossibleMoves(b, WHITE))
      blackMoves == Cardinality(getAllPossibleMoves(b, BLACK))
      mobilityScore == (whiteMoves - blackMoves) * 2
  IN  IF team = WHITE THEN mobilityScore ELSE 0 - mobilityScore

\* evaluateBoard(board).score, times ScoreScale, for the AI of `team`
evaluateBoard(b, team) ==
  LET HasKing(t) == \E pos \in Squares : /\ b[pos.y][pos.x] # null
                                         /\ b[pos.y][pos.x].isAlive
                                         /\ b[pos.y][pos.x].type = KING
                                         /\ b[pos.y][pos.x].team = t
      material == MaterialScore(b, 64)
      score == IF ~HasKing(WHITE) \/ ~HasKing(BLACK) THEN material
               ELSE IF isCheckmate(WHITE, b) THEN material - 50000 * ScoreScale
               ELSE IF isCheckmate(BLACK, b) THEN material + 50000 * ScoreScale
               ELSE IF isStalemate(WHITE, b) \/ isStalemate(BLACK, b) THEN 0
               ELSE material
  IN  (IF team = BLACK THEN 0 - score ELSE score)
        + ScoreScale * (evaluateKingSafety(b, team)
                          + evaluatePawnStructure(b, team)
                          + evaluateControl(b, team))

\* ChessAI.makeMove: the move made on a copy of the rows, the moved piece a copy
makeMove(b, move) ==
  LET piece == b[move.from.y][move.from.x]
      castled == IF isCastlingMove(piece, move.to)
                 THEN executeCastling(piece, move.to, b) ELSE b
      movedPiece == [piece EXCEPT !.position = move.to, !.hasMoved = TRUE]
  IN  IF piece = null THEN b
      ELSE SetCell(SetCell(castled, move.to, movedPiece), move.from, null)

(***************************************************************************)
(* What the hypothetical moves write.  A cell write goes to the array it is *)
(* made on: the operators below give, next to the board the function was    *)
(* passed, the copy it made, each after the writes of the function.         *)
(***************************************************************************)
\* a simulation that writes to the rows of the board it was passed
wouldMoveResultInCheckInPlace(piece, to, b) ==
  LET written == SetCell(SetCell(b, to, [piece EXCEPT !.position = to]),
                         piece.position, null)
  IN  [board |-> written, boardCopy |-> written]

\* wouldMoveResultInCheck: boardCopy = board.map(row => [...row]) has rows of its
\* own, the simulated piece { ...piece, position: to } is a new object
wouldMoveResultInCheckWrites(piece, to, b) ==
  [board |-> b,
   boardCopy |-> SetCell(SetCell(b, to, [piece EXCEPT !.position = to]),
                         piece.position, null)]

\* the board passed to getValidMoves after wouldMoveResultInCheck was called for
\* the candidate squares `moves` of the piece, one after the other
RECURSIVE BoardAfterSimulations(_, _, _)
BoardAfterSimulations(piece, moves, b) ==
  IF moves = {} THEN b
  ELSE LET to == CHOOSE pos \in moves :
                   \A o \in moves : pos.y < o.y \/ (pos.y = o.y /\ pos.x <= o.x)
       IN  BoardAfterSimulations(piece, moves \ {to},
                                 wouldMoveResultInCheckWrites(piece, to, b).board)

\* getValidMoves (and with it isMoveValid, isCheckmate, isStalemate, which write
\* nothing themselves): the board it was passed, after the call
BoardAfterGetValidMoves(piece, b) ==
  BoardAfterSimulations(piece, {pos \in getCandidateMoves(piece, b) : isValidPosition(pos)}, b)

\* ChessAI.makeMove: newBoard = board.map(row => [...row]) takes the writes of
\* executeCastling and of the move; movedPiece is a new object
makeMoveWrites(b, move) == [board |-> b, newBoard |-> makeMove(b, move)]

\* minimax(board, depth, -Infinity, Infinity, maximizing) for the AI of `team`:
\* null (the empty set) at depth 0 or without a move, else the moves of the best
\* score, of which the loop keeps the first it generated.  The score of a move
\* is evaluateBoard of the board after it; the result childMove of the recursive
\* call is not used.  With beta = Infinity the loop of the root never breaks.
minimax(b, depth, team, maximizing) ==
  LET currentTeam == IF maximizing THEN team ELSE Opposite(team)
      moves == getAllPossibleMoves(b, currentTeam)
      score == [move \in moves |-> evaluateBoard(makeMove(b, move), team)]
  IN  IF depth = 0 THEN {}
      ELSE {[from |-> move.from, to |-> move.to, score |-> score[move]] :
              move \in {m \in moves : \A o \in moves :
                          IF maximizing THEN score[o] <= score[m]
                          ELSE score[o] >= score[m]}}


(***************************************************************************)
(* The search specification: the boards ChessAI visits when getBestMove is  *)
(* called on a position late in a game.  board is the copy the search holds *)
(* at a node, currentTurn the side to move there, moveHistory the moves     *)
(* made on the copy since the root.                                         *)
(***************************************************************************)
SearchDepth == 2

\* a board holding the given pieces
BoardOf(pieces) ==
  [y \in 0..7 |-> [x \in 0..7 |->
     IF \E piece \in pieces : piece.position = Pos(x, y)
     THEN CHOOSE piece \in pieces : piece.position = Pos(x, y)
     ELSE null]]

\* the positions searched: the white king on e1, white pawns on d4 and c3, the
\* black king on a8 and a black knight (at 50 of its 75 hit points) on e6; the
\* second position has the white rook of h1 as well
SearchBoards ==
  LET Moved(piece) == [piece EXCEPT !.hasMoved = TRUE]
      Hurt(piece, hp) == [piece EXCEPT !.stats.currentHp = hp]
      base == {createPiece(PieceId(WHITE, KING, 4), KING, WHITE, Pos(4, 7)),
               Moved(createPiece(PieceId(WHITE, PAWN, 3), PAWN, WHITE, Pos(3, 4))),
               Moved(createPiece(PieceId(WHITE, PAWN, 2), PAWN, WHITE, Pos(2, 5))),
               Moved(createPiece(PieceId(BLACK, KING, 4), KING, BLACK, Pos(0, 0))),
               Hurt(Moved(createPiece(PieceId(BLACK, KNIGHT, 6), KNIGHT, BLACK,
                                      Pos(4, 2))), 50)}
      rook == createPiece(PieceId(WHITE, ROOK, 7), ROOK, WHITE, Pos(7, 7))
  IN  {BoardOf(base), BoardOf(base \cup {rook})}

SearchInit ==
  /\ board \in SearchBoards
  /\ currentTurn = BLACK
  /\ selectedPiece = NoPosition
  /\ validMoves = {}
  /\ highlightedSquares = {}
  /\ gameState = PLAYING
  /\ winner = NoTeam
  /\ moveHistory = <<>>
  /\ turnCount = 1
  /\ activeEffects = <<>>
  /\ ai = [difficulty |-> MEDIUM, team |-> BLACK]
  /\ isAIThinking = TRUE
  /\ currentCooldown = [id \in AbilityIds |-> 0]
  /\ aiTimers = 0

\* one iteration of the loop of minimax: newBoard = makeMove(board, move)
SearchMakeMove ==
  /\ Len(moveHistory) < SearchDepth
  /\ \E move \in getAllPossibleMoves(board, currentTurn) :
       /\ board' = makeMove(board, move)
       /\ moveHistory' = Append(moveHistory, move)
  /\ currentTurn' = Opposite(currentTurn)
  /\ UNCHANGED <<selectedPiece, validMoves, highlightedSquares, gameState, winner,
                 turnCount, activeEffects, ai, isAIThinking, currentCooldown, aiTimers>>

SearchNext == SearchMakeMove

SearchSpec == SearchInit /\ [][SearchNext]_vars

(***************************************************************************)
(* Properties                                                              *)
(***************************************************************************)

\* the reference search: the score of a move is the best score of the search
\* below it, and evaluateBoard where no ply is left or no reply exists
RECURSIVE ReferenceMinimax(_, _, _, _)
ReferenceMinimax(b, depth, team, maximizing) ==
  LET currentTeam == IF maximizing THEN team ELSE Opposite(team)
      moves == getAllPossibleMoves(b, currentTeam)
      Below(move) == ReferenceMinimax(makeMove(b, move), depth - 1, team, ~maximizing)
      score == [move \in moves |->
                  LET below == Below(move)
                  IN  IF depth = 1 \/ below = {}
                      THEN evaluateBoard(makeMove(b, move), team)
                      ELSE (CHOOSE r \in below : TRUE).score]
  IN  IF depth = 0 THEN {}
      ELSE {[from |-> move.from, to |-> move.to, score |-> score[move]] :
              move \in {m \in moves : \A o \in moves :
                          IF maximizing THEN score[o] <= score[m]
                          ELSE score[o] >= score[m]}}

\* a step in which movePiece got past its guard: it appended one Move
MoveStep == Len(moveHistory') = Len(moveHistory) + 1

\* the Move appended by that step
LastMove == moveHistory'[Len(moveHistory')]

\* the squares that hold a piece
Occupied == {pos \in Squares : board[pos.y][pos.x] # null}

\* C1: every position getValidMoves returns for a piece on the board, applied
\* as movePiece applies it (capture, relocation and the rook of a castling),
\* leaves the king of the piece's team out of check.
C1_SelfCheckSafety ==
  \A pos \in Occupied :
    \A p \in getValidMoves(board[pos.y][pos.x], board) :
      ~isKingInCheck(board[pos.y][pos.x].team,
                     MoveBoard(board[pos.y][pos.x], pos, p, board))

\* castling is offered to the white king while the f2 pawn is pinned: its
\* step to f3 is a candidate that getValidMoves filters out
C1_Witness ==
  /\ board[7][4] # null
  /\ board[7][4].type = KING
  /\ Pos(6, 7) \in getValidMoves(board[7][4], board)
  /\ board[6][5] # null
  /\ Pos(5, 5) \in getCandidateMoves(board[6][5], board)
  /\ Pos(5, 5) \notin getValidMoves(board[6][5], board)

\* C2: after any sequence of store commands every piece stored in a cell has
\* that cell as its position and is alive, and no id is in two cells.
C2_BoardPositionConsistency ==
  /\ \A pos \in Occupied :
       /\ board[pos.y][pos.x].position = pos
       /\ board[pos.y][pos.x].isAlive
  /\ Cardinality({board[pos.y][pos.x].id : pos \in Occupied}) = Cardinality(Occupied)

\* the black queen teleported and then captured on f2, the black knight leapt to h3
C2_Witness ==
  /\ board[6][5] # null
  /\ board[6][5].id = "black-queen-3"
  /\ board[5][7] # null
  /\ board[5][7].id = "black-knight-6"
  /\ Len(moveHistory) > 0

C4_CaptureOutcome ==
  [][MoveStep =>
       LET defender == board[LastMove.to.y][LastMove.to.x]
           resultingHp == defender.stats.currentHp - LastMove.damage[1]
       IN  defender # null =>
             IF resultingHp <= 0
             THEN CellOf(board', defender.id) = NoPosition
             ELSE /\ CellOf(board', defender.id) # NoPosition
                  /\ PieceById(board', defender.id).isAlive
                  /\ PieceById(board', defender.id).stats.currentHp = resultingHp]_vars

\* C5 as stated: the damage of a capture is max(1, A - D), the defender's hp
\* becomes H - damage (35 and 15 for A = 40, D = 5, H = 50), and the
\* attacker's hp is unchanged.
C5_CaptureDamage ==
  [][MoveStep =>
       LET attacker == board[LastMove.from.y][LastMove.from.x]
           defender == board[LastMove.to.y][LastMove.to.x]
           damage == Max(1, DEFAULT_PIECE_STATS[attacker.type].attackPower
                              - DEFAULT_PIECE_STATS[defender.type].defense)
       IN  defender # null =>
             /\ LastMove.damage = <<damage>>
             /\ (defender.stats.currentHp - damage > 0 =>
                   LastMove.capturedPiece.snap.stats.currentHp
                     = defender.stats.currentHp - damage)
             /\ board'[LastMove.to.y][LastMove.to.x].stats.currentHp
                  = attacker.stats.currentHp]_vars

\* C5, amended: the damage of a capture is the attacker's attackPower A (the
\* defender's defense is not subtracted), the surviving defender's hp
\* becomes H - A (40 and 10 for A = 40, H = 50), and the attacker's hp is
\* unchanged.
C5_CaptureDamageIsAttackPower ==
  [][MoveStep =>
       LET attacker == board[LastMove.from.y][LastMove.from.x]
           defender == board[LastMove.to.y][LastMove.to.x]
           damage == DEFAULT_PIECE_STATS[attacker.type].attackPower
       IN  defender # null =>
             /\ LastMove.damage = <<damage>>
             /\ (defender.stats.currentHp - damage > 0 =>
                   LastMove.capturedPiece.snap.stats.currentHp
                     = defender.stats.currentHp - damage)
             /\ board'[LastMove.to.y][LastMove.to.x].stats.currentHp
                  = attacker.stats.currentHp]_vars

\* a queen (attackPower 40) captured on a pawn of 50 hp: damage 40, hp 10
C5_Witness ==
  \E i \in 1..Len(moveHistory) :
    /\ moveHistory[i].piece.snap.type = QUEEN
    /\ moveHistory[i].capturedPiece.snap.type = PAWN
    /\ moveHistory[i].damage = <<40>>
    /\ moveHistory[i].capturedPiece.snap.stats.currentHp = 10

\* the caster cannot use the ability: dead, short of mana, cooling down or
\* below the level the ability requires
CannotUse(piece, ability) ==
  \/ ~piece.isAlive
  \/ piece.stats.currentMana < ability.manaCost
  \/ currentCooldown[ability.id] > 0
  \/ piece.level < ability.levelRequirement

\* C6: when the caster cannot use the ability, executeAbility returns
\* success = false with the board it was given and changes no cooldown, and
\* useAbility leaves the board (mana, hp, status, positions, cells) and the
\* cooldowns of the store as they were.
C6_AbilityFailureNoChange ==
  [][\A c \in AbilityRequests :
       LET caster == FindCaster(board, c.pieceId)
           found == IF caster = null THEN <<>> ELSE FindAbility(caster, c.abilityId)
           result == executeAbility(caster, found[1],
                                    IF c.target = NoPosition THEN caster.position
                                    ELSE c.target,
                                    board, currentCooldown)
       IN  (caster # null /\ found # <<>> /\ CannotUse(caster, found[1])) =>
             /\ ~result.success
             /\ result.board = board
             /\ result.currentCooldown = currentCooldown
             /\ useAbility(c.pieceId, c.abilityId, c.target) =>
                  /\ board' = board
                  /\ currentCooldown' = currentCooldown
                  /\ moveHistory' = moveHistory]_vars

\* on Black's turn the black queen is on the board with its teleport cooling down
C6_Witness ==
  /\ currentTurn = BLACK
  /\ CellOf(board, "black-queen-3") # NoPosition
  /\ currentCooldown["queen_teleport"] > 0

\* C7: a successful movePiece gives the turn to the other team, adds one to
\* turnCount and clears selectedPiece, validMoves and highlightedSquares; on
\* the initial board (4,6) -> (4,4) is such a move.
C7_TurnAlternation ==
  [][/\ MoveStep =>
          /\ currentTurn' = Opposite(currentTurn)
          /\ turnCount' = turnCount + 1
          /\ selectedPiece' = NoPosition
          /\ validMoves' = {}
          /\ highlightedSquares' = {}
     /\ (board = createInitialBoard /\ currentTurn = WHITE /\ turnCount = 1
           /\ movePiece(Pos(4, 6), Pos(4, 4))) =>
          /\ MoveStep
          /\ currentTurn' = BLACK
          /\ turnCount' = 2]_vars

\* e2-e4 was played as the first move of the game
C7_Witness ==
  /\ Len(moveHistory) = 1
  /\ moveHistory[1].from = Pos(4, 6)
  /\ moveHistory[1].to = Pos(4, 4)
  /\ currentTurn = BLACK
  /\ turnCount = 2

\* C8: a movePiece with no piece at `from`, or with a `to` that is not in
\* getValidMoves of that piece, changes nothing in the store and schedules
\* no AI move.
C8_IllegalMoveNoOp ==
  [][\A r \in MoveRequests :
       ((\/ board[r.from.y][r.from.x] = null
         \/ r.to \notin getValidMoves(board[r.from.y][r.from.x], board))
        /\ movePiece(r.from, r.to)) => UNCHANGED vars]_vars

\* with a piece selected, the f2 pawn stands at the start of a requested
\* move that is a candidate and that getValidMoves rejects
C8_Witness ==
  /\ selectedPiece # NoPosition
  /\ board[6][5] # null
  /\ Pos(5, 5) \in getCandidateMoves(board[6][5], board)
  /\ Pos(5, 5) \notin getValidMoves(board[6][5], board)

\* C9: after a successful movePiece by a piece of team T, the store has
\* winner = T and gameState = GameOver when the opponent of T is checkmated
\* on the new board, and winner none with gameState unchanged otherwise.
C9_WinDetection ==
  [][MoveStep =>
       LET mover == board[LastMove.from.y][LastMove.from.x]
           newBoard == MoveBoard(mover, LastMove.from, LastMove.to, board)
       IN  IF isCheckmate(Opposite(mover.team), newBoard)
           THEN winner' = mover.team /\ gameState' = GAME_OVER
           ELSE winner' = NoTeam /\ gameState' = gameState]_vars

\* a step that starts a new game, or sets gameState directly
NewGameStep ==
  \/ resetGame
  \/ \E difficulty \in Difficulties : startAIGame(difficulty)
  \/ \E newState \in GameStateRequests : setGameState(newState)

\* C10: once gameState is GameOver, no selectPiece, movePiece, useAbility,
\* endTurn or makeAIMove changes board, currentTurn, turnCount, moveHistory,
\* winner or gameState.
C10_GameOverTerminal ==
  [][(gameState = GAME_OVER /\ ~NewGameStep) =>
       /\ board' = board
       /\ currentTurn' = currentTurn
       /\ turnCount' = turnCount
       /\ moveHistory' = moveHistory
       /\ winner' = winner
       /\ gameState' = gameState]_vars

\* the edges of the phase diagram
PhaseEdges ==
  {<<MENU, PLAYING>>, <<PLAYING, ABILITY_TARGETING>>, <<ABILITY_TARGETING, PLAYING>>,
   <<PLAYING, PAUSED>>, <<PAUSED, PLAYING>>, <<PLAYING, GAME_OVER>>}

\* C11: gameState starts as MENU and changes only along Menu->Playing,
\* Playing->AbilityTargeting, AbilityTargeting->Playing, Playing->Paused,
\* Paused->Playing and Playing->GameOver.
C11_PhaseTransitions ==
  /\ gameState = MENU
  /\ [][gameState' # gameState => <<gameState, gameState'>> \in PhaseEdges]_vars

\* no living piece of the team on the board has a legal move
NoLegalMove(team) ==
  \A pos \in Occupied :
    (board[pos.y][pos.x].team = team /\ board[pos.y][pos.x].isAlive)
      => getValidMoves(board[pos.y][pos.x], board) = {}

\* C12: isCheckmate(team) holds iff the team's king is in check and no living
\* piece of the team has a legal move; isStalemate(team) holds iff the king
\* is not in check and no living piece of the team has a legal move; they are
\* never both true, and a king in check with a legal move is not checkmated.
C12_CheckmateStalemate ==
  \A team \in Team :
    /\ isCheckmate(team, board) <=> (isKingInCheck(team, board) /\ NoLegalMove(team))
    /\ isStalemate(team, board) <=> (~isKingInCheck(team, board) /\ NoLegalMove(team))
    /\ ~(isCheckmate(team, board) /\ isStalemate(team, board))
    /\ (isKingInCheck(team, board) /\ ~NoLegalMove(team)) => ~isCheckmate(team, board)

\* the black queen on f2, covered by the knight on h3, mates the white king
C12_Witness ==
  /\ isKingInCheck(WHITE, board)
  /\ NoLegalMove(WHITE)
  /\ isCheckmate(WHITE, board)
  /\ ~isStalemate(WHITE, board)

\* C13: every position getValidMoves returns for a piece on the board is on
\* the 8x8 grid and is not occupied by a living piece of the mover's own
\* team, castling destinations included.
C13_LegalMoveRange ==
  \A pos \in Occupied :
    \A p \in getValidMoves(board[pos.y][pos.x], board) :
      /\ 0 <= p.x /\ p.x < 8
      /\ 0 <= p.y /\ p.y < 8
      /\ ~(/\ board[p.y][p.x] # null
           /\ board[p.y][p.x].isAlive
           /\ board[p.y][p.x].team = board[pos.y][pos.x].team)

\* the white king may castle to the empty g1 and the bishop on c4 may
\* capture the black pawn on f7
C13_Witness ==
  /\ board[7][4] # null
  /\ board[7][4].type = KING
  /\ Pos(6, 7) \in getValidMoves(board[7][4], board)
  /\ board[7][6] = null
  /\ board[4][2] # null
  /\ board[4][2].type = BISHOP
  /\ board[1][5] # null
  /\ Pos(5, 1) \in getValidMoves(board[4][2], board)

\* C14: endTurn flips currentTurn, adds one to turnCount and sets currentMana
\* of every living piece of the newly active team to min(maxMana,
\* currentMana + 10); the mana of the other team's pieces and every piece's
\* hp, position and cell are unchanged.
C14_EndTurnRegeneration ==
  [][endTurn =>
       /\ currentTurn' = (IF currentTurn = WHITE THEN BLACK ELSE WHITE)
       /\ turnCount' = turnCount + 1
       /\ \A pos \in Squares :
            LET old == board[pos.y][pos.x]
                new == board'[pos.y][pos.x]
            IN  IF old = null THEN new = null
                ELSE /\ new # null
                     /\ new.id = old.id
                     /\ new.position = old.position
                     /\ new.stats.currentHp = old.stats.currentHp
                     /\ new.stats.currentMana =
                          IF old.team = currentTurn' /\ old.isAlive
                          THEN IF old.stats.currentMana + 10
                                    > DEFAULT_PIECE_STATS[old.type].maxMana
                               THEN DEFAULT_PIECE_STATS[old.type].maxMana
                               ELSE old.stats.currentMana + 10
                          ELSE old.stats.currentMana
                     /\ new.stats.currentMana <= DEFAULT_PIECE_STATS[old.type].maxMana]_vars

\* two endTurn calls after the black knight spent 30 mana: it regenerated 10
\* when the turn came back to Black, and the black queen stayed at its maximum
C14_Witness ==
  /\ moveHistory = <<>>
  /\ turnCount = 4
  /\ currentTurn = BLACK
  /\ PieceById(board, "black-knight-6") # null
  /\ PieceById(board, "black-knight-6").stats.currentMana = 80
  /\ PieceById(board, "black-queen-3").stats.currentMana = 100

\* C15: outside PLAYING selectPiece changes nothing; in PLAYING it selects the
\* position with validMoves and highlightedSquares = getValidMoves of the
\* piece iff the cell holds a living piece of currentTurn, and clears the
\* selection otherwise; it never changes the board, the turn or the history.
C15_SelectOnlyInPlaying ==
  [][\A position \in SelectRequests :
       selectPiece(position) =>
         LET piece == board[position.y][position.x]
         IN  IF gameState # PLAYING THEN UNCHANGED vars
             ELSE /\ IF piece # null /\ piece.isAlive /\ piece.team = currentTurn
                     THEN /\ selectedPiece' = position
                          /\ validMoves' = getValidMoves(piece, board)
                          /\ highlightedSquares' = getValidMoves(piece, board)
                     ELSE /\ selectedPiece' = NoPosition
                          /\ validMoves' = {}
                          /\ highlightedSquares' = {}
                  /\ UNCHANGED <<board, currentTurn, turnCount, moveHistory>>]_vars

\* C16: useAbility without a target, for an ability whose targetType is not
\* SELF, sets gameState = ABILITY_TARGETING, selectedPiece = the caster's
\* position and highlightedSquares = getValidTargets, and leaves the board
\* (so the caster's mana), the cooldowns, currentTurn and turnCount as they
\* were; a successful useAbility with a target commits the board of
\* executeAbility and sets gameState = PLAYING.
C16_TwoPhaseTargeting ==
  [][\A c \in AbilityRequests :
       LET caster == FindCaster(board, c.pieceId)
           found == IF caster = null THEN <<>> ELSE FindAbility(caster, c.abilityId)
           result == executeAbility(caster, found[1], c.target, board, currentCooldown)
       IN  (/\ useAbility(c.pieceId, c.abilityId, c.target)
            /\ caster # null
            /\ caster.team = currentTurn
            /\ found # <<>>) =>
             IF c.target = NoPosition
             THEN found[1].targetType # SELF =>
                    /\ gameState' = ABILITY_TARGETING
                    /\ selectedPiece' = caster.position
                    /\ highlightedSquares' = getValidTargets(caster, found[1], board)
                    /\ UNCHANGED <<board, currentCooldown, currentTurn, turnCount>>
             ELSE result.success =>
                    /\ board' = result.board
                    /\ gameState' = PLAYING]_vars

\* the black knight asked for its leap without a target: the store is in
\* the targeting phase, the knight keeps its 100 mana and the leap is ready
C16_Witness ==
  /\ gameState = ABILITY_TARGETING
  /\ selectedPiece = Pos(6, 0)
  /\ highlightedSquares # {}
  /\ board[0][6] # null
  /\ board[0][6].id = "black-knight-6"
  /\ board[0][6].stats.currentMana = 100
  /\ currentCooldown["knight_leap"] = 0

\* C17: a successful use of ability A by piece P changes the cooldown of A on
\* P only: the cooldown of every ability on every other piece is unchanged;
\* and a new game (resetGame, startAIGame) starts with all cooldowns at zero.
C17_IndependentCooldowns ==
  [][/\ \A c \in AbilityRequests :
          (/\ useAbility(c.pieceId, c.abilityId, c.target)
           /\ currentCooldown' # currentCooldown) =>
            \A pos \in Occupied :
              board[pos.y][pos.x].id # c.pieceId =>
                \A i \in 1..2 :
                  LET a == PIECE_ABILITIES[board[pos.y][pos.x].type][i].id
                  IN  PieceCooldown(currentCooldown', board[pos.y][pos.x], a)
                        = PieceCooldown(currentCooldown, board[pos.y][pos.x], a)
     /\ (resetGame \/ \E difficulty \in Difficulties : startAIGame(difficulty)) =>
          \A pos \in Squares :
            board'[pos.y][pos.x] # null =>
              \A i \in 1..2 :
                PieceCooldown(currentCooldown', board'[pos.y][pos.x],
                              PIECE_ABILITIES[board'[pos.y][pos.x].type][i].id) = 0]_vars

\* C18: at each start of its owner's turn (the turn passes to the owner's
\* team) every status effect of a piece has its duration decremented by one
\* and is removed when the duration reaches zero, as processStatusEffects
\* does; no effect on a piece has duration <= 0.
C18_StatusEffectLifecycle ==
  [][/\ currentTurn' # currentTurn =>
          \A pos \in Occupied :
            board[pos.y][pos.x].team = currentTurn' =>
              /\ board'[pos.y][pos.x] # null
              /\ board'[pos.y][pos.x].statusEffects
                   = processStatusEffects(board[pos.y][pos.x]).statusEffects
     /\ \A pos \in Squares :
          board'[pos.y][pos.x] # null =>
            \A i \in 1..Len(board'[pos.y][pos.x].statusEffects) :
              board'[pos.y][pos.x].statusEffects[i].duration > 0]_vars

\* the buff and debuff effects the abilities declare
StatusEffectsDeclared ==
  {e \in UNION {{PIECE_ABILITIES[t][i].effects[j] :
                   j \in 1..Len(PIECE_ABILITIES[t][i].effects)} :
                  t \in PieceType, i \in 1..2} :
     e.type \in {"buff", "debuff"}}

\* the number of effects with this id in a list of status effects
Instances(effects, id) == Cardinality({i \in 1..Len(effects) : effects[i].id = id})

\* C19: no piece holds two status effects with the same id (every declared
\* effect is non-stackable); applying an effect to a piece that already has
\* it leaves one instance, the new one with its full duration; a buff
\* reaches only pieces of the caster's team and a debuff only pieces of the
\* other team.
C19_NonStackableUniqueness ==
  /\ \A pos \in Occupied :
       \A i, j \in 1..Len(board[pos.y][pos.x].statusEffects) :
         i # j => board[pos.y][pos.x].statusEffects[i].id
                    # board[pos.y][pos.x].statusEffects[j].id
  /\ \A e \in StatusEffectsDeclared :
       \A casterPos \in {Pos(4, 7), Pos(4, 0)} :
         LET caster == board[casterPos.y][casterPos.x]
             targetPos == Pos(0, 6)
             after == executeStatusEffect(caster, e, targetPos,
                                          [board |-> board, killed |-> {}]).board
         IN  \A pos \in Occupied :
               LET old == board[pos.y][pos.x]
                   new == after[pos.y][pos.x]
                   reached ==
                     /\ IF e.areaOfEffect = 0 THEN pos = targetPos
                        ELSE /\ pos.x - targetPos.x <= e.areaOfEffect
                             /\ targetPos.x - pos.x <= e.areaOfEffect
                             /\ pos.y - targetPos.y <= e.areaOfEffect
                             /\ targetPos.y - pos.y <= e.areaOfEffect
                     /\ IF e.type = "buff" THEN old.team = caster.team
                        ELSE old.team # caster.team
               IN  IF reached
                   THEN /\ Instances(new.statusEffects, e.statusEffect.id) = 1
                        /\ new.statusEffects[Len(new.statusEffects)] = e.statusEffect
                        /\ Len(new.statusEffects)
                             = Len(old.statusEffects) + 1
                                 - Instances(old.statusEffects, e.statusEffect.id)
                        /\ [new EXCEPT !.statusEffects = <<>>]
                             = [old EXCEPT !.statusEffects = <<>>]
                   ELSE new = old

\* white-pawn-0 used pawn_charge twice and holds one shield_wall of full duration
C19_Witness ==
  /\ board[6][0] # null
  /\ board[6][0].stats.currentMana <= 60
  /\ Len(board[6][0].statusEffects) = 1
  /\ board[6][0].statusEffects[1].id = "shield_wall"
  /\ board[6][0].statusEffects[1].duration = 3

\* the damage effects the abilities declare
DamageEffectsDeclared ==
  {e \in UNION {{PIECE_ABILITIES[t][i].effects[j] :
                   j \in 1..Len(PIECE_ABILITIES[t][i].effects)} :
                  t \in PieceType, i \in 1..2} :
     e.type = "damage"}

C21_SuccessfulAbilityCost ==
  \A c \in EngineCasts :
    LET caster == PieceById(board, c.pieceId)
        ability == FindAbility(caster, c.abilityId)[1]
        first == executeAbility(caster, ability, c.target, board, currentCooldown)
        after == PieceById(first.board, c.pieceId)
        again == executeAbility(after, ability, c.target, first.board,
                                first.currentCooldown)
    IN  (caster # null /\ first.success) =>
          /\ after # null
          /\ after.stats.currentMana = caster.stats.currentMana - ability.manaCost
          /\ after.stats.currentMana >= 0
          /\ first.currentCooldown[ability.id] = ability.cooldown
          /\ ability.cooldown > 0 =>
               /\ ~again.success
               /\ again.board = first.board
               /\ again.currentCooldown = first.currentCooldown

\* the black knight has just leapt for the third time: 10 mana left, the
\* leap cooling down for 4 turns
C21_Witness ==
  /\ PieceById(board, "black-knight-6") # null
  /\ PieceById(board, "black-knight-6").stats.currentMana = 10
  /\ currentCooldown["knight_leap"] = 4

\* the board with the king of `from` standing on `to` instead
KingOn(from, to) ==
  [board EXCEPT ![to.y][to.x] = [board[from.y][from.x] EXCEPT !.position = to],
                ![from.y][from.x] = null]

\* C22: getValidMoves of a king contains a two-file move toward a rook only
\* if the king has not moved and is not in check, the rook of that side is an
\* own-team rook that has not moved, every square between king and rook is
\* empty, and the king would be in check neither on the square it passes
\* over nor on its destination.
C22_CastlingAvailability ==
  \A pos \in Occupied :
    board[pos.y][pos.x].type = KING =>
      \A p \in getValidMoves(board[pos.y][pos.x], board) :
        (p.x - pos.x = 2 \/ pos.x - p.x = 2) =>
          LET king == board[pos.y][pos.x]
              rookX == IF p.x > pos.x THEN 7 ELSE 0
              step == IF p.x > pos.x THEN 1 ELSE -1
              rook == board[pos.y][rookX]
          IN  /\ p.y = pos.y
              /\ ~king.hasMoved
              /\ ~isKingInCheck(king.team, board)
              /\ rook # null
              /\ rook.type = ROOK
              /\ rook.team = king.team
              /\ ~rook.hasMoved
              /\ \A x \in 1..6 :
                   ((pos.x < x /\ x < rookX) \/ (rookX < x /\ x < pos.x))
                     => board[pos.y][x] = null
              /\ ~isKingInCheck(king.team, KingOn(pos, Pos(pos.x + step, pos.y)))
              /\ ~isKingInCheck(king.team, KingOn(pos, p))

\* the white king may castle king-side: e1 and h1 unmoved, f1 and g1 empty;
\* queen-side castling is absent, b1, c1 and d1 being occupied
C22_Witness ==
  /\ board[7][4] # null
  /\ board[7][4].type = KING
  /\ ~board[7][4].hasMoved
  /\ board[7][7] # null
  /\ ~board[7][7].hasMoved
  /\ Pos(6, 7) \in getValidMoves(board[7][4], board)
  /\ Pos(2, 7) \notin getValidMoves(board[7][4], board)
  /\ board[7][3] # null

\* C23: a successful movePiece of a king two files toward a rook leaves the
\* king on its destination (file 6 or 2), the rook on the square the king
\* crossed (file 5 or 3), both origin squares empty, both pieces marked as
\* moved with their position equal to their cell; one Move record is
\* appended and the turn advances once.
C23_CastlingExecution ==
  [][(/\ MoveStep
      /\ board[LastMove.from.y][LastMove.from.x].type = KING
      /\ \/ LastMove.to.x - LastMove.from.x = 2
         \/ LastMove.from.x - LastMove.to.x = 2) =>
       LET y == LastMove.from.y
           kingside == LastMove.to.x > LastMove.from.x
           rookFrom == IF kingside THEN 7 ELSE 0
           rookTo == IF kingside THEN 5 ELSE 3
           king == board'[y][LastMove.to.x]
           rook == board'[y][rookTo]
       IN  /\ LastMove.to.x = (IF kingside THEN 6 ELSE 2)
           /\ LastMove.to.y = y
           /\ king # null
           /\ king.id = board[y][LastMove.from.x].id
           /\ king.position = LastMove.to
           /\ king.hasMoved
           /\ rook # null
           /\ rook.type = ROOK
           /\ rook.id = board[y][rookFrom].id
           /\ rook.position = Pos(rookTo, y)
           /\ rook.hasMoved
           /\ board'[y][LastMove.from.x] = null
           /\ board'[y][rookFrom] = null
           /\ Len(moveHistory') = Len(moveHistory) + 1
           /\ turnCount' = turnCount + 1
           /\ currentTurn' = Opposite(currentTurn)]_vars

\* White has castled king-side: king on g1, rook on f1, e1 and h1 empty
C23_Witness ==
  /\ board[7][6] # null
  /\ board[7][6].id = "white-king-4"
  /\ board[7][6].hasMoved
  /\ board[7][5] # null
  /\ board[7][5].id = "white-rook-7"
  /\ board[7][5].hasMoved
  /\ board[7][4] = null
  /\ board[7][7] = null
  /\ moveHistory[Len(moveHistory)].to = Pos(6, 7)

C26_MinimaxBackUp ==
  moveHistory = <<>> =>
    \A depth \in 1..SearchDepth :
      minimax(board, depth, ai.team, TRUE) = ReferenceMinimax(board, depth, ai.team, TRUE)

\* C27: after resetGame the game state is that of a fresh session: the
\* initial board, every ability cooldown zero, White to move, turnCount 1,
\* no move recorded, no winner, nothing selected or highlighted, no AI
\* controller left and isAIThinking false.
C27_NewGameResetsEverything ==
  [][resetGame =>
       /\ board' = createInitialBoard
       /\ \A id \in AbilityIds : currentCooldown'[id] = 0
       /\ currentTurn' = WHITE
       /\ turnCount' = 1
       /\ moveHistory' = <<>>
       /\ winner' = NoTeam
       /\ selectedPiece' = NoPosition
       /\ validMoves' = {}
       /\ highlightedSquares' = {}
       /\ ai' = NoAI
       /\ ~isAIThinking']_vars

\* C28: a successful movePiece that leaves the opposing team stalemated (not
\* in check, no legal move) does not set gameState to GAME_OVER, keeps the
\* winner none and passes the turn to the stalemated team; a movePiece that
\* sets GAME_OVER has checkmated the opposing team.
C28_StalemateNotGameOver ==
  [][MoveStep =>
       /\ isStalemate(Opposite(currentTurn), board') =>
            /\ gameState' = gameState
            /\ winner' = NoTeam
            /\ currentTurn' = Opposite(currentTurn)
       /\ (gameState' = GAME_OVER /\ gameState # GAME_OVER) =>
            isCheckmate(Opposite(currentTurn), board')]_vars

\* White's tenth move has been made: Black is to move, stalemated, and the
\* game goes on without a winner
C28_Witness ==
  /\ Len(moveHistory) = Len(GameLine)
  /\ currentTurn = BLACK
  /\ isStalemate(BLACK, board)
  /\ gameState = PLAYING
  /\ winner = NoTeam

\* what a Move record shows: its squares, its two piece snapshots, its damage
RecordView(record) ==
  [from |-> record.from, to |-> record.to, piece |-> record.piece.snap,
   capturedPiece |-> record.capturedPiece.snap, damage |-> record.damage]

\* C29: between new games moveHistory only grows, by one record per
\* successful movePiece (pre-move from, to and mover) and by none otherwise,
\* and no field of a record already appended changes, the hp, mana and alive
\* flag inside its piece snapshots included.
C29_AppendOnlyHistory ==
  [][\/ moveHistory' = <<>>
     \/ /\ Len(moveHistory') \in {Len(moveHistory), Len(moveHistory) + 1}
        /\ \A i \in 1..Len(moveHistory) :
             RecordView(moveHistory'[i]) = RecordView(moveHistory[i])
        /\ MoveStep =>
             /\ board[LastMove.from.y][LastMove.from.x] # null
             /\ LastMove.piece.snap = board[LastMove.from.y][LastMove.from.x]
             /\ LastMove.to \in getValidMoves(LastMove.piece.snap, board)]_vars

C31_TeamsAlternate ==
  [][MoveStep =>
       /\ board[LastMove.from.y][LastMove.from.x].team = currentTurn
       /\ Len(moveHistory) > 0 =>
            moveHistory[Len(moveHistory)].piece.snap.team
              # LastMove.piece.snap.team]_vars

\* the squares of board b that hold a king of the team
KingsOf(team, b) ==
  {pos \in Squares : /\ b[pos.y][pos.x] # null
                     /\ b[pos.y][pos.x].type = KING
                     /\ b[pos.y][pos.x].team = team}

\* C32: in every state reached from a new game by movePiece, useAbility and
\* turn changes the board holds exactly one king of each team: no capturing
\* move and no teleporting ally ever overwrites a king.
C32_KingPresence ==
  \A team \in Team : Cardinality(KingsOf(team, board)) = 1

\* the ids of the pieces on board b
BoardIds(b) == {b[pos.y][pos.x].id : pos \in {p \in Squares : b[p.y][p.x] # null}}

\* the pieces of the board that the cast kills (hp brought to 0 or below)
KilledBy(c) ==
  LET caster == FindCaster(board, c.pieceId)
      found == IF caster = null THEN <<>> ELSE FindAbility(caster, c.abilityId)
  IN  IF caster = null \/ found = <<>> \/ c.target = NoPosition THEN {}
      ELSE executeAbility(caster, found[1], c.target, board, currentCooldown).killed

\* C33: across a movePiece, useAbility or endTurn step every piece of the
\* board is still on the board afterwards, unless that step brought its hp
\* to 0 or below; a teleport onto an occupied square removes no piece.
C33_LeaveOnlyByDying ==
  [][board' # createInitialBoard =>
       \A id \in BoardIds(board) \ BoardIds(board') :
         IF MoveStep
         THEN /\ board[LastMove.to.y][LastMove.to.x].id = id
              /\ board[LastMove.to.y][LastMove.to.x].stats.currentHp
                   - CaptureDamage(board[LastMove.from.y][LastMove.from.x],
                                   board[LastMove.to.y][LastMove.to.x]) <= 0
         ELSE \E c \in TeleportCasts \cup HistoryCasts \cup AbilityRequests :
                id \in KilledBy(c)]_vars

\* C34: currentTurn is White exactly when turnCount is odd, turnCount - 1 is at
\* least the length of moveHistory, and currentTurn changes only in a step
\* that changes turnCount as well (endTurn, resetGame, startAIGame).
C34_TurnCounterCoupling ==
  /\ [](/\ (currentTurn = WHITE) <=> (turnCount % 2 = 1)
        /\ turnCount - 1 >= Len(moveHistory))
  /\ [][currentTurn' # currentTurn =>
          \/ turnCount' = turnCount + 1
          \/ turnCount' = 1 /\ currentTurn' = WHITE]_vars

\* the turn is back with White after one move and one turn passed without a move
C34_Witness ==
  /\ turnCount = 3
  /\ currentTurn = WHITE
  /\ Len(moveHistory) = 1

\* C35: useAbility with an explicit target commits its effects only if the
\* target is one of getValidTargets(caster, ability, board); with any other
\* target the board, the caster's mana and the cooldown stay as they are.
C35_TargetValidation ==
  [][\A c \in AbilityRequests :
       LET caster == FindCaster(board, c.pieceId)
           found == IF caster = null THEN <<>> ELSE FindAbility(caster, c.abilityId)
       IN  (/\ c.target # NoPosition
            /\ caster # null
            /\ found # <<>>
            /\ c.target \notin getValidTargets(caster, found[1], board)
            /\ useAbility(c.pieceId, c.abilityId, c.target)) =>
             /\ board' = board
             /\ currentCooldown' = currentCooldown]_vars

\* the AI's team is on turn in a game that is not over
AITurn == ai # NoAI /\ currentTurn = ai.team /\ gameState # GAME_OVER

\* C36: whenever the turn comes to the AI's team in a game that is not over,
\* by movePiece or by endTurn, a makeAIMove is scheduled in the end, and
\* with its timer pending and a legal move the AI moves and the turn goes
\* back to the other team.
C36_AITurnServed ==
  /\ AITurn ~> (aiTimers > 0 \/ ~AITurn)
  /\ (AITurn /\ aiTimers > 0 /\ turnCount < MaxTurn) ~> ~AITurn


\* the reply delay: the human's move has passed the turn to the AI's team and
\* the timer that will call makeAIMove has not fired yet
ReplyDelay == ai # NoAI /\ currentTurn = ai.team /\ aiTimers > 0

\* C37: during the reply delay no command selects a piece of the AI's team and
\* no command but makeAIMove moves one: a move of a piece of that team is a
\* move getBestMove returns on the board for the AI's turn, made when the
\* timer fires.
C37_AISideExclusive ==
  [][ReplyDelay =>
       /\ (selectedPiece' # NoPosition /\ selectedPiece' # selectedPiece)
            => board[selectedPiece'.y][selectedPiece'.x].team # ai.team
       /\ (MoveStep /\ LastMove.piece.snap.team = ai.team)
            => /\ aiTimers' = aiTimers - 1
               /\ [from |-> LastMove.from, to |-> LastMove.to]
                    \in getBestMove(board, ai.team)]_vars


\* the largest cooldown of PIECE_ABILITIES (king_sanctuary)
MaxCooldown == 12

\* C38: a cooldown that a successful execution has set to c > 0 decreases as
\* the turns advance: with at least two turn changes still to come, the
\* counter of the ability falls below c in the end (and so, step by step,
\* reaches 0).
C38_CooldownsExpire ==
  \A id \in AbilityIds : \A c \in 1..MaxCooldown :
    (currentCooldown[id] = c /\ turnCount <= MaxTurn - 2)
      ~> (currentCooldown[id] < c)


\* C39: useAbility, whether it enters targeting, succeeds or fails, changes
\* neither currentTurn nor turnCount nor moveHistory and schedules no AI move:
\* an ability does not consume the turn.
C39_AbilityKeepsTurn ==
  [][\A c \in HistoryCasts \cup AbilityRequests :
       useAbility(c.pieceId, c.abilityId, c.target) =>
         /\ currentTurn' = currentTurn
         /\ turnCount' = turnCount
         /\ moveHistory' = moveHistory
         /\ aiTimers' = aiTimers]_vars


\* C40: in every reachable state a winner is recorded exactly when gameState
\* is GameOver, and the team opposing the recorded winner is checkmated on
\* the current board.
C40_WinnerPhaseCoupling ==
  /\ (winner # NoTeam) <=> (gameState = GAME_OVER)
  /\ winner # NoTeam => isCheckmate(Opposite(winner), board)

====
